---- MODULE Spec2Model ----
(***************************************************************************)
(* A model of the disk-backed audio cache of koko-tts                      *)
(* (src/src/services/cache.ts, class CacheService).                        *)
(*                                                                         *)
(* The state is the fields of one CacheService object (config.enabled,     *)
(* index, stats), the files the service keeps under its cache directory    *)
(* (index.json, stats.json, entries/<key>/audio.wav) and the clock read by *)
(* Date.now().  Every public method is one action; the private methods it  *)
(* awaits (deleteEntry, enforceConstraints, cleanup, loadIndex, saveIndex, *)
(* loadStats, updateStats) are operators applied inside that action.       *)
(* Filesystem calls that can throw are modelled by a nondeterministic      *)
(* choice of the call that throws.                                         *)
(***************************************************************************)
EXTENDS Integers, Sequences, FiniteSets, TLC

VARIABLES
    enabled,    \* this.config.enabled
    index,      \* this.index : [entries, totalSize, lastCleanup]
    stats,      \* this.stats : [hits, misses, totalEntries, totalSize, hitRate]
    indexFile,  \* contents of index.json: NoSnapshot or an index value
    statsFile,  \* contents of stats.json: NoSnapshot or a stats value
    files,      \* key -> size of entries/<key>/audio.wav, NoFile if absent
    phase,      \* "constructed" (initialize not yet called) or "ready"
    now,        \* the latest value Date.now() has returned
    ops,        \* number of calls (methods, later constructions) so far
    faults,     \* number of filesystem calls that have thrown so far
    ret,        \* the last completed call: method, arguments, result
    keycalls,   \* calls of generateCacheKey under SpecKey: inputs and keys
    segmenter,  \* a call of splitTextIntoChunks under SpecSegmenter
    stitcher,   \* a call of AudioStitcher.stitchChunks under SpecStitcher,
                \* of generateWavBuffer under SpecPcm
    audio,      \* an AudioService and its current call under SpecAudio, a
                \* call of streamAudio under SpecStream
    calls,      \* the get and set calls in flight under SpecConcurrent
    retry       \* a call of withRetry under SpecRetry

vars == <<enabled, index, stats, indexFile, statsFile, files, phase, now,
          ops, faults, ret, keycalls, segmenter, stitcher, audio, calls, retry>>

\* The state of the CacheService and its directory.
cacheVars == <<enabled, index, stats, indexFile, statsFile, files, phase, now,
               ops, faults, ret>>

----------------------------------------------------------------------------
(* Bounds of the model and the configuration it runs under.                *)

MaxTime == 1        \* the clock runs over 0..MaxTime
MaxPayload == 2     \* payload files have 1..MaxPayload bytes
MaxOps == 4         \* method calls per behaviour
MaxFaults == 1      \* filesystem calls that throw per behaviour

\* CacheConfig of the modelled store (DEFAULT_CACHE_CONFIG scaled down).
maxSize == 3
maxAge == 0
maxEntries == 1

Undefined == -1     \* an omitted option (JS undefined)
NoFile == 0         \* no payload file at the path
NoSnapshot == <<>>  \* the file does not exist; <<v>> is a file holding v
Null == <<>>        \* the null returned by get

\* Damaged contents of index.json: text JSON.parse rejects, and a file whose
\* JSON is an object of another shape (no entries field).
Unparseable == <<"not", "JSON">>
NotAnIndex == [lastCleanup |-> 0]

----------------------------------------------------------------------------
(* generateCacheKey.  Speeds and temperatures are in tenths (10 = 1.0).    *)

\* JS `x || d`: d when x is undefined or 0 (falsy), x otherwise.
OrDefault(x, d) == IF x = Undefined \/ x = 0 THEN d ELSE x

\* A variant with 1.0 as the default temperature.
normalizedOptionsOtherDefault(options) ==
    [speed |-> OrDefault(options.speed, 10),
     temperature |-> OrDefault(options.temperature, 10)]

normalizedOptions(options) ==
    [speed |-> OrDefault(options.speed, 10),
     temperature |-> OrDefault(options.temperature, 7)]

\* JSON.stringify({ text, voice, options: normalizedOptions }): the fields
\* in this fixed order.
JSONstringify(text, voice, nopts) ==
    <<text, voice, nopts.speed, nopts.temperature>>

\* sha256(...).digest('hex'), taken as collision free: distinct
\* serialisations have distinct digests.
sha256hex(s) == s

generateCacheKey(text, voice, options) ==
    sha256hex(JSONstringify(text, voice, normalizedOptions(options)))

----------------------------------------------------------------------------
(* Requests the cache operations are called with.                          *)

Request(t, v, s, tp) ==
    [text |-> t, voice |-> v, options |-> [speed |-> s, temperature |-> tp]]

\* The requests made of the store: two texts in the default voice.
CacheRequests ==
    { Request("a", "af_heart", Undefined, Undefined),
      Request("b", "af_heart", Undefined, Undefined) }

KeyOf(r) == generateCacheKey(r.text, r.voice, r.options)

CacheKeys == { KeyOf(r) : r \in CacheRequests }

----------------------------------------------------------------------------
(* Helpers on the index.                                                   *)

EmptyIndex(t) == [entries |-> <<>>, totalSize |-> 0, lastCleanup |-> t]

ZeroStats ==
    [hits |-> 0, misses |-> 0, totalEntries |-> 0, totalSize |-> 0,
     hitRate |-> <<0, 1>>]

\* path.join(entriesDir, key, 'audio.wav')
cachedFilePath(key) == <<"entries", key, "audio.wav">>

\* The CacheEntry built by set (lines 177-186); text, voice and options are
\* fixed by the key and read by no method, and are left out.
CacheEntry(key, createdAt, accessedAt, size) ==
    [key |-> key, filePath |-> cachedFilePath(key), createdAt |-> createdAt,
     accessedAt |-> accessedAt, size |-> size]

\* Position of the entry with this key in Object.values order, 0 if none.
Pos(entries, key) ==
    IF \E i \in 1..Len(entries) : entries[i].key = key
    THEN CHOOSE i \in 1..Len(entries) : entries[i].key = key
    ELSE 0

HasKey(entries, key) == Pos(entries, key) # 0

Lookup(entries, key) == entries[Pos(entries, key)]

RemoveAt(s, i) == SubSeq(s, 1, i - 1) \o SubSeq(s, i + 1, Len(s))

RECURSIVE SumSize(_)
SumSize(entries) ==
    IF entries = <<>> THEN 0
    ELSE Head(entries).size + SumSize(Tail(entries))

\* Array.prototype.sort with (a, b) => a.accessedAt - b.accessedAt: a stable
\* sort, ascending in accessedAt.
RECURSIVE InsertSorted(_, _)
InsertSorted(sorted, e) ==
    IF sorted = <<>> THEN <<e>>
    ELSE IF Head(sorted).accessedAt <= e.accessedAt
         THEN <<Head(sorted)>> \o InsertSorted(Tail(sorted), e)
         ELSE <<e>> \o sorted

\* A variant whose comparator is b.accessedAt - a.accessedAt: most recently
\* accessed first.
RECURSIVE SortByAccessedAtDescending(_)
SortByAccessedAtDescending(entries) ==
    IF entries = <<>> THEN <<>>
    ELSE LET rest == SortByAccessedAtDescending(
                         SubSeq(entries, 1, Len(entries) - 1))
             asc == InsertSorted([i \in 1..Len(rest) |->
                                     rest[Len(rest) + 1 - i]],
                                 entries[Len(entries)])
         IN [i \in 1..Len(asc) |-> asc[Len(asc) + 1 - i]]

RECURSIVE SortByAccessedAt(_)
SortByAccessedAt(entries) ==
    IF entries = <<>> THEN <<>>
    ELSE InsertSorted(SortByAccessedAt(SubSeq(entries, 1, Len(entries) - 1)),
                      entries[Len(entries)])

----------------------------------------------------------------------------
(* The private methods.  A world w is [index, files, evicted]: the index,  *)
(* the payload files, and the entries deleted so far in this call.         *)

\* A variant that returns from the catch clause of the removal.
deleteEntryUnlessRmFails(w, key, rmFails) ==
    IF ~HasKey(w.index.entries, key) THEN w
    ELSE LET entry == Lookup(w.index.entries, key)
         IN IF key \in rmFails
            THEN [w EXCEPT !.evicted = Append(@, entry)]
            ELSE [index |-> [w.index EXCEPT
                               !.totalSize = @ - entry.size,
                               !.entries = RemoveAt(@, Pos(@, key))],
                  files |-> [w.files EXCEPT ![key] = NoFile],
                  evicted |-> Append(w.evicted, entry)]

\* deleteEntry(key): rmFails is the set of keys whose directory removal
\* throws (the error is ignored).
deleteEntry(w, key, rmFails) ==
    IF ~HasKey(w.index.entries, key) THEN w
    ELSE LET entry == Lookup(w.index.entries, key)
         IN [index |-> [w.index EXCEPT
                          !.totalSize = @ - entry.size,
                          !.entries = RemoveAt(@, Pos(@, key))],
             files |-> IF key \in rmFails THEN w.files
                       ELSE [w.files EXCEPT ![key] = NoFile],
             evicted |-> Append(w.evicted, entry)]

\* while (this.index.totalSize > maxSize && entries.length > 0) shift, delete
RECURSIVE EvictForSize(_, _, _)
EvictForSize(w, list, rmFails) ==
    IF w.index.totalSize > maxSize /\ list # <<>>
    THEN EvictForSize(deleteEntry(w, Head(list).key, rmFails), Tail(list),
                      rmFails)
    ELSE [w |-> w, list |-> list]

\* A variant that stops one entry early.
RECURSIVE EvictForCountLate(_, _, _)
EvictForCountLate(w, list, rmFails) ==
    IF Len(list) > maxEntries + 1
    THEN EvictForCountLate(deleteEntry(w, Head(list).key, rmFails),
                           Tail(list), rmFails)
    ELSE [w |-> w, list |-> list]

\* while (entries.length > maxEntries) shift, delete
RECURSIVE EvictForCount(_, _, _)
EvictForCount(w, list, rmFails) ==
    IF Len(list) > maxEntries
    THEN EvictForCount(deleteEntry(w, Head(list).key, rmFails), Tail(list),
                       rmFails)
    ELSE [w |-> w, list |-> list]

enforceConstraints(w, rmFails) ==
    LET entries == w.index.entries
        bySize == IF w.index.totalSize > maxSize
                  THEN EvictForSize(w, SortByAccessedAt(entries), rmFails)
                  ELSE [w |-> w, list |-> entries]
        byCount == IF Len(bySize.list) > maxEntries
                   THEN EvictForCount(bySize.w,
                                      SortByAccessedAt(bySize.list), rmFails)
                   ELSE bySize
    IN byCount.w

\* A variant of the loop that measures the age from the last access.
RECURSIVE SweepSinceAccess(_, _, _, _)
SweepSinceAccess(w, list, t, rmFails) ==
    IF list = <<>> THEN w
    ELSE SweepSinceAccess(IF t - Head(list).accessedAt > maxAge
                          THEN deleteEntry(w, Head(list).key, rmFails)
                          ELSE w,
                          Tail(list), t, rmFails)

\* The loop of cleanup(): delete every entry older than maxAge.
RECURSIVE Sweep(_, _, _, _)
Sweep(w, list, t, rmFails) ==
    IF list = <<>> THEN w
    ELSE Sweep(IF t - Head(list).createdAt > maxAge
               THEN deleteEntry(w, Head(list).key, rmFails)
               ELSE w,
               Tail(list), t, rmFails)

cleanup(w, t, rmFails) ==
    LET swept == Sweep(w, w.index.entries, t, rmFails)
    IN [swept EXCEPT !.index.lastCleanup = t]

\* loadIndex / loadStats: a missing file, or one JSON.parse rejects, leaves
\* the in-memory value; any value JSON.parse returns is taken as it is.
loadIndex(idx, file) ==
    IF file = NoSnapshot \/ file = Unparseable THEN idx ELSE file[1]

loadStats(st, file) == IF file = NoSnapshot THEN st ELSE file[1]

\* saveIndex / saveStats: the snapshot file is replaced by the serialized
\* value.  The writes of the two snapshot files are taken to succeed: the
\* code only logs their failure.
saveIndex(file, idx) == <<idx>>

saveStats(file, st) == <<st>>

\* A variant that counts a miss of its own.
updateStatsCountingMiss(st, idx) ==
    [st EXCEPT
       !.misses = @ + 1,
       !.totalEntries = Len(idx.entries),
       !.totalSize = idx.totalSize,
       !.hitRate = IF st.hits + st.misses + 1 > 0
                   THEN <<st.hits, st.hits + st.misses + 1>>
                   ELSE <<0, 1>>]

\* A variant that divides hits by misses.
updateStatsHitsPerMiss(st, idx) ==
    [st EXCEPT
       !.totalEntries = Len(idx.entries),
       !.totalSize = idx.totalSize,
       !.hitRate = IF st.hits + st.misses > 0
                   THEN <<st.hits, IF st.misses > 0 THEN st.misses ELSE 1>>
                   ELSE <<0, 1>>]

\* updateStats(): hitRate is kept as the fraction <<hits, hits + misses>>.
updateStats(st, idx) ==
    [st EXCEPT
       !.totalEntries = Len(idx.entries),
       !.totalSize = idx.totalSize,
       !.hitRate = IF st.hits + st.misses > 0
                   THEN <<st.hits, st.hits + st.misses>>
                   ELSE <<0, 1>>]

World(idx, fs) == [index |-> idx, files |-> fs, evicted |-> <<>>]

\* The record of a completed call: the method, the key and payload size it
\* was called with, the clock it read first, the value returned, the entries
\* it deleted, and whether the catch clause of the method ran.
Result(op, key, size, at, result, evicted, threw) ==
    [op |-> op, key |-> key, size |-> size, at |-> at, result |-> result,
     evicted |-> evicted, threw |-> threw]

----------------------------------------------------------------------------
(* The state after `new CacheService(config)` in a fresh cache directory.  *)

Init ==
    /\ enabled = TRUE
    /\ index = EmptyIndex(0)
    /\ stats = ZeroStats
    /\ indexFile = NoSnapshot
    /\ statsFile = NoSnapshot
    /\ files = [k \in CacheKeys |-> NoFile]
    /\ phase = "constructed"
    /\ now = 0
    /\ ops = 0
    /\ faults = 0
    /\ ret = Result("new", <<>>, 0, 0, Null, <<>>, FALSE)
    /\ keycalls = <<>>
    /\ segmenter = <<>>
    /\ audio = <<>>
    /\ calls = <<>>
    /\ retry = <<>>
    /\ stitcher = <<>>

\* The values Date.now() can return to a call that reads it first: time
\* passes between calls.
Clock == now..MaxTime

\* Date.now() read again later in a call that first read t0.
Later(t0) == { t \in t0..(t0 + 1) : t <= MaxTime }

\* The filesystem call that throws during a method call, "none" if none
\* does: <<c>> for one of the calls the method makes, <<"rm", k>> for the
\* removal of the directory of key k (a removal the call goes on to make),
\* while the fault budget lasts.
Fault(fscalls, keys) ==
    IF faults < MaxFaults
    THEN {<<"none">>} \cup { <<c>> : c \in fscalls }
             \cup { <<"rm", k>> : k \in keys }
    ELSE {<<"none">>}

\* A method call that injected the fault f.
Called(f) ==
    /\ ops' = ops + 1
    /\ faults' = IF f[1] = "none" THEN faults ELSE faults + 1

\* The keys whose directory removal throws in a call with fault f.
RmFails(f) == IF f[1] = "rm" THEN {f[2]} ELSE {}

Keys(entries) == { entries[i].key : i \in 1..Len(entries) }

\* The keys of the entries that index.json lists.
SnapshotKeys(file) ==
    IF file = NoSnapshot \/ file = Unparseable THEN {}
    ELSE IF "entries" \notin DOMAIN file[1] THEN {}
    ELSE Keys(file[1].entries)

\* A variant whose catch clause leaves the store enabled.
initializeBodyStaysEnabled(idx, st, fs, ifile, sfile, t, f) ==
    IF f[1] = "mkdir"
    THEN [enabled |-> TRUE, index |-> idx, stats |-> st, files |-> fs,
          indexFile |-> ifile, evicted |-> <<>>, threw |-> TRUE]
    ELSE IF "entries" \notin DOMAIN loadIndex(idx, ifile)
    THEN [enabled |-> TRUE, index |-> loadIndex(idx, ifile),
          stats |-> loadStats(st, sfile), files |-> fs,
          indexFile |-> ifile, evicted |-> <<>>, threw |-> TRUE]
    ELSE LET w == cleanup(World(loadIndex(idx, ifile), fs), t, RmFails(f))
         IN [enabled |-> TRUE, index |-> w.index,
             stats |-> loadStats(st, sfile), files |-> w.files,
             indexFile |-> saveIndex(ifile, w.index),
             evicted |-> w.evicted, threw |-> FALSE]

\* The body of initialize() on an enabled store, at time t with fault f.
\* The catch clause runs when mkdir throws and when cleanup() throws:
\* Object.values(this.index.entries) of a loaded value without entries.
initializeBody(idx, st, fs, ifile, sfile, t, f) ==
    IF f[1] = "mkdir"
    THEN [enabled |-> FALSE, index |-> idx, stats |-> st, files |-> fs,
          indexFile |-> ifile, evicted |-> <<>>, threw |-> TRUE]
    ELSE IF "entries" \notin DOMAIN loadIndex(idx, ifile)
    THEN [enabled |-> FALSE, index |-> loadIndex(idx, ifile),
          stats |-> loadStats(st, sfile), files |-> fs,
          indexFile |-> ifile, evicted |-> <<>>, threw |-> TRUE]
    ELSE LET w == cleanup(World(loadIndex(idx, ifile), fs), t, RmFails(f))
         IN [enabled |-> TRUE, index |-> w.index,
             stats |-> loadStats(st, sfile), files |-> w.files,
             indexFile |-> saveIndex(ifile, w.index),
             evicted |-> w.evicted, threw |-> FALSE]

\* async initialize()
Initialize ==
    /\ phase = "constructed"
    /\ ops < MaxOps
    /\ phase' = "ready"
    /\ IF ~enabled
       THEN /\ Called(<<"none">>)
            /\ ret' = Result("initialize", <<>>, 0, now, Null, <<>>, FALSE)
            /\ UNCHANGED <<enabled, index, stats, indexFile, files, now>>
       ELSE \E f \in Fault({"mkdir"}, SnapshotKeys(indexFile)) :
            \E r \in {initializeBody(index, stats, files, indexFile,
                                     statsFile, now, f)} :
                 /\ f[1] = "rm" => f[2] \in Keys(r.evicted)
                 /\ Called(f)
                 /\ UNCHANGED now
                 /\ enabled' = r.enabled
                 /\ index' = r.index
                 /\ stats' = r.stats
                 /\ files' = r.files
                 /\ indexFile' = r.indexFile
                 /\ ret' = Result("initialize", <<>>, 0, now, Null, r.evicted,
                                  r.threw)
    /\ UNCHANGED <<statsFile, keycalls, segmenter,
                   stitcher, audio, calls, retry>>

\* A variant that measures the age from the last access.
isExpiredSinceAccess(entry, t) == t - entry.accessedAt > maxAge

\* Line 130: Date.now() - entry.createdAt > this.config.maxAge
isExpired(entry, t) == t - entry.createdAt > maxAge

\* A variant without the fs.access check.
getBranchUnchecked(idx, fs, key, t) ==
    IF ~HasKey(idx.entries, key) THEN "absent"
    ELSE IF t - Lookup(idx.entries, key).createdAt > maxAge THEN "expired"
    ELSE "hit"

\* The branch get takes for a key: "absent" (no entry), "expired", "hit"
\* (fs.access succeeds) or "missing" (fs.access throws).
getBranch(idx, fs, key, t) ==
    IF ~HasKey(idx.entries, key) THEN "absent"
    ELSE IF isExpired(Lookup(idx.entries, key), t) THEN "expired"
    ELSE IF fs[key] # NoFile THEN "hit"
    ELSE "missing"

\* async get(text, voice, options)
Get(req) ==
    /\ phase = "ready"
    /\ ops < MaxOps
    /\ LET key == KeyOf(req)
       IN IF ~enabled
          THEN /\ Called(<<"none">>)
               /\ ret' = Result("get", key, 0, now, Null, <<>>, FALSE)
               /\ UNCHANGED <<index, stats, indexFile, statsFile, files, now>>
          ELSE \E t0 \in Clock :
               \E branch \in {getBranch(index, files, key, t0)} :
               IF branch = "absent"
               THEN   /\ Called(<<"none">>)
                      /\ now' = t0
                      /\ stats' = updateStats(
                                     [stats EXCEPT !.misses = @ + 1], index)
                      /\ statsFile' = saveStats(statsFile, stats')
                      /\ ret' = Result("get", key, 0, t0, Null, <<>>, FALSE)
                      /\ UNCHANGED <<index, indexFile, files>>
               ELSE IF branch \in {"expired", "missing"}
               THEN \E f \in Fault({}, {key}) :
                    \E w \in {deleteEntry(World(index, files), key,
                                          RmFails(f))} :
                      /\ Called(f)
                      /\ now' = t0
                      /\ index' = w.index
                      /\ files' = w.files
                      /\ stats' = updateStats(
                                     [stats EXCEPT !.misses = @ + 1], index')
                      /\ statsFile' = saveStats(statsFile, stats')
                      /\ ret' = Result("get", key, 0, t0, Null, w.evicted,
                                       FALSE)
                      /\ UNCHANGED indexFile
               ELSE \E t \in Later(t0) :
                      /\ Called(<<"none">>)
                      /\ now' = t
                      /\ index' = [index EXCEPT
                            !.entries[Pos(index.entries, key)].accessedAt = t]
                      /\ indexFile' = saveIndex(indexFile, index')
                      /\ stats' = updateStats(
                                     [stats EXCEPT !.hits = @ + 1], index')
                      /\ statsFile' = saveStats(statsFile, stats')
                      /\ ret' = Result("get", key, 0, t0,
                                       Lookup(index.entries, key).filePath,
                                       <<>>, FALSE)
                      /\ UNCHANGED files
    /\ UNCHANGED <<enabled, phase, keycalls, segmenter,
                   stitcher, calls, retry>>

\* this.index.entries[key] = entry: an existing key keeps its place in
\* Object.values order, a new key goes last.
PutEntry(entries, entry) ==
    IF HasKey(entries, entry.key)
    THEN [entries EXCEPT ![Pos(entries, entry.key)] = entry]
    ELSE Append(entries, entry)

\* Lines 191-193 of set: insert or overwrite the entry, add its size.
UpdateIndex(idx, entry) ==
    [idx EXCEPT !.entries = PutEntry(@, entry),
                !.totalSize = @ + entry.size]

\* A variant that updates the index before it writes the metadata.
setTryBlockIndexFirst ==
    <<"mkdir", "copyFile", "stat", "updateIndex", "writeFile",
      "enforceConstraints", "saveIndex", "updateStats">>

\* The statements of the try block of set, in source order.
setTryBlock ==
    <<"mkdir", "copyFile", "stat", "writeFile", "updateIndex",
      "enforceConstraints", "saveIndex", "updateStats">>

\* The statements of set whose failure reaches the catch clause (saveIndex
\* and the removals of deleteEntry catch their own errors).
SetThrowing == {"mkdir", "copyFile", "stat", "writeFile"}

\* One statement of the try block applied to the call's state c =
\* [index, files, indexFile, stats, statsFile, evicted, threw], for the
\* entry being stored and the fault f.
SetStatement(stmt, c, entry, f) ==
    CASE stmt = "copyFile" ->
            [c EXCEPT !.files[entry.key] = entry.size]
      [] stmt = "updateIndex" ->
            [c EXCEPT !.index = UpdateIndex(@, entry)]
      [] stmt = "enforceConstraints" ->
            LET w == enforceConstraints(World(c.index, c.files), RmFails(f))
            IN [c EXCEPT !.index = w.index, !.files = w.files,
                         !.evicted = w.evicted]
      [] stmt = "saveIndex" ->
            [c EXCEPT !.indexFile = saveIndex(@, c.index)]
      [] stmt = "updateStats" ->
            LET st == updateStats(c.stats, c.index)
            IN [c EXCEPT !.stats = st,
                         !.statsFile = saveStats(@, st)]
      [] OTHER -> c   \* mkdir, stat, writeFile(metadata): no modelled state

\* The try block run up to the statement that throws.
RECURSIVE RunSet(_, _, _, _)
RunSet(stmts, c, entry, f) ==
    IF stmts = <<>> THEN c
    ELSE IF Head(stmts) = f[1] /\ Head(stmts) \in SetThrowing
    THEN [c EXCEPT !.threw = TRUE]
    ELSE RunSet(Tail(stmts), SetStatement(Head(stmts), c, entry, f),
                entry, f)

\* async set(text, voice, audioFilePath, options): size is the size of the
\* file at audioFilePath.
Set(req, size) ==
    /\ phase = "ready"
    /\ ops < MaxOps
    /\ LET key == KeyOf(req)
       IN IF ~enabled
          THEN /\ Called(<<"none">>)
               /\ ret' = Result("set", key, size, now, Null, <<>>, FALSE)
               /\ UNCHANGED <<index, stats, indexFile, statsFile, files, now>>
          ELSE \E t0 \in Clock :
               \E f \in Fault({"mkdir", "copyFile", "stat", "writeFile"},
                              Keys(index.entries) \cup {key}) :
               \E t \in IF f[1] \in SetThrowing THEN {t0} ELSE Later(t0) :
               \E c \in {RunSet(setTryBlock,
                                [index |-> index, files |-> files,
                                 indexFile |-> indexFile, stats |-> stats,
                                 statsFile |-> statsFile, evicted |-> <<>>,
                                 threw |-> FALSE],
                                CacheEntry(key, t0, t, size), f)} :
                 /\ f[1] = "rm" => f[2] \in Keys(c.evicted)
                 /\ Called(f)
                 /\ now' = t
                 /\ index' = c.index
                 /\ files' = c.files
                 /\ indexFile' = c.indexFile
                 /\ stats' = c.stats
                 /\ statsFile' = c.statsFile
                 /\ ret' = Result("set", key, size, t0, Null, c.evicted,
                                  c.threw)
    /\ UNCHANGED <<enabled, phase, keycalls, segmenter,
                   stitcher, calls, retry>>

\* updateStats() starts saveStats() without awaiting it, so the write of
\* stats.json started by the call before clear() can still be in flight; its
\* content is what statsFile shows.  Where it lands relative to clear():
\* "before" the directory is removed (or it fails, the directory being
\* gone), after initialize() recreated the directory and before loadStats()
\* reads ("loaded"), or "after" loadStats().
StatsSaveLands(f) ==
    IF /\ ret.op \in {"get", "set"} /\ ~ret.threw
       /\ statsFile # NoSnapshot
       /\ f[1] # "mkdir"
    THEN {"before", "loaded", "after"}
    ELSE {"before"}

\* async clear()
Clear ==
    /\ phase = "ready"
    /\ ops < MaxOps
    /\ IF ~enabled
       THEN /\ Called(<<"none">>)
            /\ ret' = Result("clear", <<>>, 0, now, Null, <<>>, FALSE)
            /\ UNCHANGED <<enabled, index, stats, indexFile, statsFile,
                           files, now>>
       ELSE \E t0 \in Clock :
            \E f \in Fault({"rmdir", "mkdir"}, {}) :
              /\ Called(f)
              /\ now' = t0
              /\ IF f[1] = "rmdir"
                 THEN \* fs.rm(config.directory) throws
                      /\ ret' = Result("clear", <<>>, 0, t0, Null, <<>>, TRUE)
                      /\ UNCHANGED <<enabled, index, stats, indexFile,
                                     statsFile, files>>
                 ELSE \E lands \in StatsSaveLands(f) :
                      \E r \in {initializeBody(EmptyIndex(t0), ZeroStats,
                                               [k \in CacheKeys |-> NoFile],
                                               NoSnapshot,
                                               IF lands = "loaded"
                                               THEN statsFile
                                               ELSE NoSnapshot,
                                               t0, f)} :
                         /\ enabled' = r.enabled
                         /\ index' = r.index
                         /\ stats' = r.stats
                         /\ files' = r.files
                         /\ indexFile' = r.indexFile
                         /\ statsFile' = IF lands = "before"
                                         THEN NoSnapshot
                                         ELSE statsFile
                         /\ ret' = Result("clear", <<>>, 0, t0, Null, <<>>,
                                          FALSE)
    /\ UNCHANGED <<phase, keycalls, segmenter,
                   stitcher, audio, calls, retry>>

\* The process ends and a later run constructs a new CacheService over the
\* same cache directory; createServices() initializes it at once.
Restart ==
    /\ phase = "ready"
    /\ ops < MaxOps
    /\ \E t0 \in Clock :
         /\ now' = t0
         /\ index' = EmptyIndex(t0)
    /\ enabled' = TRUE
    /\ stats' = ZeroStats
    /\ phase' = "constructed"
    /\ ops' = ops + 1
    /\ ret' = Result("new", <<>>, 0, 0, Null, <<>>, FALSE)
    /\ UNCHANGED <<indexFile, statsFile, files, faults, keycalls, segmenter,
                   stitcher, audio, calls, retry>>

\* The payload file of an entry is removed behind the store's back.
ExternalRemove(key) ==
    /\ enabled
    /\ files[key] # NoFile
    /\ HasKey(index.entries, key)
    /\ ops < MaxOps
    /\ files' = [files EXCEPT ![key] = NoFile]
    /\ UNCHANGED <<enabled, index, stats, indexFile, statsFile, phase, now,
                   ops, faults, ret, keycalls, segmenter,
                   stitcher, audio, calls, retry>>

GetAny == \E req \in CacheRequests : Get(req) /\ UNCHANGED audio

SetAny ==
    \E req \in CacheRequests, size \in 1..MaxPayload :
        Set(req, size) /\ UNCHANGED audio

ExternalRemoveAny == \E key \in CacheKeys : ExternalRemove(key)

\* One CacheService from its construction on.
Next ==
    \/ Initialize
    \/ GetAny
    \/ SetAny
    \/ Clear
    \/ ExternalRemoveAny

Spec == Init /\ [][Next]_vars

\* Between two runs index.json is removed or damaged.
DamageSnapshot ==
    /\ phase = "constructed"
    /\ ops > 0
    /\ ops < MaxOps
    /\ indexFile \notin {NoSnapshot, Unparseable, <<NotAnIndex>>}
    /\ indexFile' \in {NoSnapshot, Unparseable, <<NotAnIndex>>}
    /\ UNCHANGED <<enabled, index, stats, statsFile, files, phase, now, ops,
                   faults, ret, keycalls, segmenter,
                   stitcher, audio, calls, retry>>

\* Successive runs over one cache directory.
NextRuns == Next \/ Restart \/ DamageSnapshot

SpecRuns == Init /\ [][NextRuns]_vars

----------------------------------------------------------------------------
(* generateCacheKey on its own: two calls on inputs the command line lets  *)
(* through (speed 0.5-2.0, temperature 0.1-1.0, either possibly omitted).  *)

KeyTexts == {"a", "b"}
KeyVoices == {"af_heart", "am_adam"}
KeySpeeds == {Undefined, 5, 10, 20}
KeyTemperatures == {Undefined, 1, 7, 10}

KeyInputs ==
    { Request(t, v, sp, tp) : t \in KeyTexts, v \in KeyVoices,
                              sp \in KeySpeeds, tp \in KeyTemperatures }

InitKey ==
    /\ enabled = TRUE
    /\ index = EmptyIndex(0)
    /\ stats = ZeroStats
    /\ indexFile = NoSnapshot
    /\ statsFile = NoSnapshot
    /\ files = [k \in CacheKeys |-> NoFile]
    /\ phase = "constructed"
    /\ now = 0
    /\ ops = 0
    /\ faults = 0
    /\ ret = Result("new", <<>>, 0, 0, Null, <<>>, FALSE)
    /\ segmenter = <<>>
    /\ audio = <<>>
    /\ calls = <<>>
    /\ retry = <<>>
    /\ stitcher = <<>>
    /\ \E a \in KeyInputs, b \in KeyInputs :
          keycalls = [a |-> a, b |-> b, keys |-> <<>>]

\* Both inputs are passed to generateCacheKey.
DeriveKeys ==
    /\ keycalls.keys = <<>>
    /\ keycalls' = [keycalls EXCEPT !.keys = <<KeyOf(keycalls.a),
                                               KeyOf(keycalls.b)>>]
    /\ UNCHANGED <<cacheVars, segmenter, stitcher, audio, calls, retry>>

NextKey == DeriveKeys

SpecKey == InitKey /\ [][NextKey]_vars

----------------------------------------------------------------------------
(* StringUtils.splitTextIntoChunks (src/src/utils.ts).  A string is the    *)
(* sequence of its characters, each a one-character string.                *)

MaxTextLen == 5         \* texts of up to MaxTextLen characters
MaxChunkSize == 3       \* maxChunkSize runs over 1..MaxChunkSize

\* The characters of the texts tried: a letter, a space, a full stop, a
\* comma and a newline.
Alphabet == {"a", " ", ".", ",", "\n"}

\* The characters \s matches and trim() removes.
WhiteSpace == {" ", "\n", "\t", "\r"}

\* The characters of the class [.!?;:].
SentenceEnd == {".", "!", "?", ";", ":"}

\* String.prototype.trim
RECURSIVE trimStart(_)
trimStart(str) ==
    IF str # <<>> /\ Head(str) \in WhiteSpace THEN trimStart(Tail(str))
    ELSE str

RECURSIVE trimEnd(_)
trimEnd(str) ==
    IF str # <<>> /\ str[Len(str)] \in WhiteSpace
    THEN trimEnd(SubSeq(str, 1, Len(str) - 1))
    ELSE str

trim(str) == trimEnd(trimStart(str))

\* The first position from q on whose character is not in the class, one
\* past the end if there is none.
RECURSIVE RunEnd(_, _, _)
RunEnd(str, q, class) ==
    IF q <= Len(str) /\ str[q] \in class THEN RunEnd(str, q + 1, class)
    ELSE q

\* A match of the pattern starting at position q: the position one past
\* its end, 0 if the pattern does not match at q.
\*   "sentence"  /[.!?;:]+(?:\s|$)|\n\n+/   (sentencePattern)
\*   "comma"     /,\s+/
\*   "space"     ' '
MatchEnd(pattern, str, q) ==
    CASE pattern = "sentence" ->
            IF str[q] \in SentenceEnd
            THEN LET r == RunEnd(str, q, SentenceEnd)
                 IN IF r > Len(str) THEN r
                    ELSE IF str[r] \in WhiteSpace THEN r + 1
                    ELSE 0
            ELSE IF str[q] = "\n" /\ q < Len(str) /\ str[q + 1] = "\n"
            THEN RunEnd(str, q, {"\n"})
            ELSE 0
      [] pattern = "comma" ->
            IF str[q] = "," /\ q < Len(str) /\ str[q + 1] \in WhiteSpace
            THEN RunEnd(str, q + 1, WhiteSpace)
            ELSE 0
      [] pattern = "space" ->
            IF str[q] = " " THEN q + 1 ELSE 0

\* The successive matches of the pattern from position q on, leftmost
\* first, as pairs <<start, one past the end>>.
RECURSIVE Matches(_, _, _)
Matches(pattern, str, q) ==
    IF q > Len(str) THEN <<>>
    ELSE LET e == MatchEnd(pattern, str, q)
         IN IF e = 0 THEN Matches(pattern, str, q + 1)
            ELSE <<<<q, e>>>> \o Matches(pattern, str, e)

\* String.prototype.split: the pieces between the matches.
split(str, pattern) ==
    LET m == Matches(pattern, str, 1)
    IN [i \in 1..(Len(m) + 1) |->
          SubSeq(str,
                 IF i = 1 THEN 1 ELSE m[i - 1][2],
                 IF i > Len(m) THEN Len(str) ELSE m[i][1] - 1)]

\* String.prototype.match with a global pattern, || []: the matched texts.
match(str, pattern) ==
    LET m == Matches(pattern, str, 1)
    IN [i \in 1..Len(m) |-> SubSeq(str, m[i][1], m[i][2] - 1)]

\* array.slice(0, -1) and array[array.length - 1] ?? ''
AllButLast(array) == SubSeq(array, 1, Len(array) - 1)

LastOrEmpty(array) == IF array = <<>> THEN <<>> ELSE array[Len(array)]

\* The greedy packing loop the three splitters share.  pieces are packed
\* from piece i on into the current chunk, joined by glue; a piece that does
\* not fit closes the current chunk, or, with the current chunk empty, is
\* split by the next finer splitter ("words", or "force" for the loop of
\* splitByWords, which pushes the piece as it is).
RECURSIVE splitByWords(_, _)
RECURSIVE PackLoop(_, _, _, _, _, _, _)
PackLoop(pieces, i, glue, finer, chunks, currentChunk, maxChunkSize) ==
    IF i > Len(pieces)
    THEN [chunks |-> chunks, currentChunk |-> currentChunk]
    ELSE LET piece == pieces[i]
             potentialLength ==
                 Len(currentChunk)
                   + (IF currentChunk # <<>> THEN Len(glue) ELSE 0)
                   + Len(piece)
         IN IF potentialLength <= maxChunkSize
            THEN PackLoop(pieces, i + 1, glue, finer, chunks,
                          currentChunk
                            \o (IF currentChunk # <<>> THEN glue ELSE <<>>)
                            \o piece,
                          maxChunkSize)
            ELSE IF currentChunk # <<>>
            THEN PackLoop(pieces, i + 1, glue, finer,
                          Append(chunks, currentChunk), piece, maxChunkSize)
            ELSE IF finer = "force"
            THEN PackLoop(pieces, i + 1, glue, finer,
                          Append(chunks, piece), <<>>, maxChunkSize)
            ELSE LET wordChunks == splitByWords(piece, maxChunkSize)
                 IN PackLoop(pieces, i + 1, glue, finer,
                             chunks \o AllButLast(wordChunks),
                             LastOrEmpty(wordChunks), maxChunkSize)

\* What the loops do after the last piece: if (currentChunk) push.
Flush(packed) ==
    IF packed.currentChunk # <<>>
    THEN Append(packed.chunks, packed.currentChunk)
    ELSE packed.chunks

\* private static splitByWords(text, maxChunkSize)
splitByWords(text, maxChunkSize) ==
    Flush(PackLoop(split(text, "space"), 1, <<" ">>, "force", <<>>, <<>>,
                   maxChunkSize))

\* private static splitLongSentence(sentence, maxChunkSize)
splitLongSentence(sentence, maxChunkSize) ==
    LET commaParts == split(sentence, "comma")
    IN IF Len(commaParts) > 1
       THEN Flush(PackLoop(commaParts, 1, <<",", " ">>, "words", <<>>, <<>>,
                           maxChunkSize))
       ELSE splitByWords(sentence, maxChunkSize)

\* Lines 868-875: each non-empty trimmed part with its trimmed delimiter.
RECURSIVE Sentences(_, _, _)
Sentences(parts, delimiters, i) ==
    IF i > Len(parts) THEN <<>>
    ELSE LET part == trim(parts[i])
             delimiter == IF i <= Len(delimiters) THEN delimiters[i]
                          ELSE <<>>
         IN (IF part # <<>> THEN <<part \o trim(delimiter)>> ELSE <<>>)
              \o Sentences(parts, delimiters, i + 1)

\* A variant that closes the chunk when the sentence would fill it exactly.
RECURSIVE SentenceLoopClosingEarly(_, _, _, _, _)
SentenceLoopClosingEarly(sentences, i, chunks, currentChunk, maxChunkSize) ==
    IF i > Len(sentences)
    THEN [chunks |-> chunks, currentChunk |-> currentChunk, closed |-> <<>>]
    ELSE LET trimmedSentence == trim(sentences[i])
             potentialLength ==
                 Len(currentChunk)
                   + (IF currentChunk # <<>> THEN 1 ELSE 0)
                   + Len(trimmedSentence)
         IN IF potentialLength < maxChunkSize
            THEN SentenceLoopClosingEarly(sentences, i + 1, chunks,
                              currentChunk
                                \o (IF currentChunk # <<>> THEN <<" ">>
                                    ELSE <<>>)
                                \o trimmedSentence,
                              maxChunkSize)
            ELSE IF currentChunk # <<>>
            THEN LET rest == SentenceLoopClosingEarly(sentences, i + 1,
                                 Append(chunks, currentChunk),
                                 trimmedSentence, maxChunkSize)
                 IN [rest EXCEPT
                       !.closed = <<[chunk |-> currentChunk,
                                     sentence |-> trimmedSentence]>> \o @]
            ELSE LET subChunks == splitLongSentence(trimmedSentence,
                                                    maxChunkSize)
                 IN SentenceLoopClosingEarly(sentences, i + 1,
                                 chunks \o AllButLast(subChunks),
                                 LastOrEmpty(subChunks), maxChunkSize)

\* Lines 879-900: the loop over the sentences.  closed lists, for every
\* chunk closed at line 891, the chunk and the sentence that started the
\* next one.
RECURSIVE SentenceLoop(_, _, _, _, _)
SentenceLoop(sentences, i, chunks, currentChunk, maxChunkSize) ==
    IF i > Len(sentences)
    THEN [chunks |-> chunks, currentChunk |-> currentChunk, closed |-> <<>>]
    ELSE LET trimmedSentence == trim(sentences[i])
             potentialLength ==
                 Len(currentChunk)
                   + (IF currentChunk # <<>> THEN 1 ELSE 0)
                   + Len(trimmedSentence)
         IN IF potentialLength <= maxChunkSize
            THEN SentenceLoop(sentences, i + 1, chunks,
                              currentChunk
                                \o (IF currentChunk # <<>> THEN <<" ">>
                                    ELSE <<>>)
                                \o trimmedSentence,
                              maxChunkSize)
            ELSE IF currentChunk # <<>>
            THEN LET rest == SentenceLoop(sentences, i + 1,
                                 Append(chunks, currentChunk),
                                 trimmedSentence, maxChunkSize)
                 IN [rest EXCEPT
                       !.closed = <<[chunk |-> currentChunk,
                                     sentence |-> trimmedSentence]>> \o @]
            ELSE LET subChunks == splitLongSentence(trimmedSentence,
                                                    maxChunkSize)
                 IN SentenceLoop(sentences, i + 1,
                                 chunks \o AllButLast(subChunks),
                                 LastOrEmpty(subChunks), maxChunkSize)

\* chunks.filter(chunk => chunk.trim().length > 0)
RECURSIVE NonBlank(_)
NonBlank(chunks) ==
    IF chunks = <<>> THEN <<>>
    ELSE (IF trim(Head(chunks)) # <<>> THEN <<Head(chunks)>> ELSE <<>>)
           \o NonBlank(Tail(chunks))

\* Lines 863-875: the sentences of the text.
SentencesOf(text) ==
    Sentences(split(text, "sentence"), match(text, "sentence"), 1)

\* static splitTextIntoChunks(text, maxChunkSize), with the sentences it
\* found and the chunks it closed: none when it returns at line 856.
splitTextIntoChunksTraced(text, maxChunkSize) ==
    IF Len(text) <= maxChunkSize
    THEN [chunks |-> <<text>>, sentences |-> <<>>, closed |-> <<>>]
    ELSE LET sentences == SentencesOf(text)
             packed == SentenceLoop(sentences, 1, <<>>, <<>>, maxChunkSize)
         IN [chunks |-> NonBlank(IF trim(packed.currentChunk) # <<>>
                                 THEN Append(packed.chunks,
                                             packed.currentChunk)
                                 ELSE packed.chunks),
             sentences |-> sentences,
             closed |-> packed.closed]

\* static splitTextIntoChunks(text, maxChunkSize)
splitTextIntoChunks(text, maxChunkSize) ==
    splitTextIntoChunksTraced(text, maxChunkSize).chunks

\* The text of the documented scenario, segmented with maxChunkSize 20.
ScenarioText ==
    <<"H", "e", "l", "l", "o", " ", "w", "o", "r", "l", "d", ".", " ",
      "T", "h", "i", "s", " ", "i", "s", " ", "a", " ", "t", "e", "s", "t",
      " ", "s", "e", "n", "t", "e", "n", "c", "e", " ", "t", "h", "a", "t",
      " ", "i", "s", " ", "q", "u", "i", "t", "e", " ", "l", "o", "n", "g",
      " ", "i", "n", "d", "e", "e", "d", ".">>

ScenarioChunkSize == 20

Texts == UNION { [1..n -> Alphabet] : n \in 0..MaxTextLen }

\* The calls made: every short text with every small maxChunkSize, and the
\* documented scenario.
InitSegmenter ==
    /\ enabled = TRUE
    /\ index = EmptyIndex(0)
    /\ stats = ZeroStats
    /\ indexFile = NoSnapshot
    /\ statsFile = NoSnapshot
    /\ files = [k \in CacheKeys |-> NoFile]
    /\ phase = "constructed"
    /\ now = 0
    /\ ops = 0
    /\ faults = 0
    /\ ret = Result("new", <<>>, 0, 0, Null, <<>>, FALSE)
    /\ keycalls = <<>>
    /\ stitcher = <<>>
    /\ audio = <<>>
    /\ calls = <<>>
    /\ retry = <<>>
    /\ \/ \E text \in Texts, maxChunkSize \in 1..MaxChunkSize :
             segmenter = [text |-> text, maxChunkSize |-> maxChunkSize,
                          returned |-> FALSE, chunks |-> <<>>,
                          sentences |-> <<>>, closed |-> <<>>]
       \/ segmenter = [text |-> ScenarioText,
                       maxChunkSize |-> ScenarioChunkSize,
                       returned |-> FALSE, chunks |-> <<>>,
                       sentences |-> <<>>, closed |-> <<>>]

\* The call returns.
Segment ==
    /\ ~segmenter.returned
    /\ LET call == splitTextIntoChunksTraced(segmenter.text,
                                             segmenter.maxChunkSize)
       IN segmenter' = [segmenter EXCEPT
             !.returned = TRUE,
             !.chunks = splitTextIntoChunks(segmenter.text,
                                            segmenter.maxChunkSize),
             !.sentences = call.sentences,
             !.closed = call.closed]
    /\ UNCHANGED <<cacheVars, keycalls, stitcher, audio, calls, retry>>

NextSegmenter == Segment

SpecSegmenter == InitSegmenter /\ [][NextSegmenter]_vars

----------------------------------------------------------------------------
(* AudioStitcher.stitchChunks (src/src/services/audio-stitcher.ts).  One   *)
(* call is followed from await to await.  A sample is the numerator of a   *)
(* fraction over SampleScale; a file is <<>> while it does not exist and   *)
(* <<content>> once written.                                               *)

MaxChunks == 2          \* up to MaxChunks audio chunks in a call
MaxSamples == 1         \* up to MaxSamples samples in a chunk

\* The sample n stands for the value n / SampleScale.
SampleScale == 4

\* The sample values tried: -1.5 and 0.5.
Samples == {-6, 2}

SampleRates == {22050, 24000}

AudioChunk ==
    [audio : UNION { [1..n -> Samples] : n \in 0..MaxSamples },
     sampling_rate : SampleRates]

\* tempDir and chunkDir: whether the option is given.
StitchOptions == [tempDir : BOOLEAN, keepChunks : BOOLEAN, chunkDir : BOOLEAN]

NoSuchFile == <<>>

\* A file that was at outputPath before the call.
OldFile == <<[old |-> TRUE]>>

\* What a write that was cut short leaves behind.
PartialFile == <<[partial |-> TRUE]>>

\* audioChunks.reduce((sum, chunk) => sum + chunk.audio.length, 0)
RECURSIVE SumOfLengths(_)
SumOfLengths(audioChunks) ==
    IF audioChunks = <<>> THEN 0
    ELSE Len(Head(audioChunks).audio) + SumOfLengths(Tail(audioChunks))

\* A validation that compares each chunk's rate with itself.
SampleRateMismatchWithItself(audioChunks) ==
    \E i \in 1..Len(audioChunks) :
        audioChunks[i].sampling_rate # audioChunks[i].sampling_rate

\* Lines 53-57: some chunk's rate differs from the first chunk's.
SampleRateMismatch(audioChunks) ==
    \E i \in 1..Len(audioChunks) :
        audioChunks[i].sampling_rate # audioChunks[1].sampling_rate

\* Float32Array.prototype.set(source, offset)
SetAt(array, source, offset) ==
    [j \in 1..Len(array) |->
        IF j > offset /\ j <= offset + Len(source) THEN source[j - offset]
        ELSE array[j]]

\* A copy loop that never advances the offset.
RECURSIVE CopyLoopAtZero(_, _, _, _)
CopyLoopAtZero(audioChunks, i, combinedAudio, offset) ==
    IF i > Len(audioChunks) THEN combinedAudio
    ELSE CopyLoopAtZero(audioChunks, i + 1,
                        SetAt(combinedAudio, audioChunks[i].audio, offset),
                        offset)

\* Lines 63-69: the chunks are copied one after the other into the
\* zero-filled array, from chunk i on.
RECURSIVE CopyLoop(_, _, _, _)
CopyLoop(audioChunks, i, combinedAudio, offset) ==
    IF i > Len(audioChunks) THEN combinedAudio
    ELSE CopyLoop(audioChunks, i + 1,
                  SetAt(combinedAudio, audioChunks[i].audio, offset),
                  offset + Len(audioChunks[i].audio))

CombinedAudio(audioChunks) ==
    CopyLoop(audioChunks, 1,
             [j \in 1..SumOfLengths(audioChunks) |-> 0], 0)

\* The sample that is not a number.
NaN == 1000000

\* A conversion without the clamp.
Unclamped(sample) == sample

\* Math.max(-1, Math.min(1, sample))
Clamp(sample) ==
    IF sample = NaN THEN NaN
    ELSE IF sample > SampleScale THEN SampleScale
    ELSE IF sample < -SampleScale THEN -SampleScale
    ELSE sample

\* Math.round(sample * 32767): the nearest integer, a half rounded up.
RoundScaled(sample) ==
    IF sample = NaN THEN NaN
    ELSE (2 * sample * 32767 + SampleScale) \div (2 * SampleScale)

\* The store into an Int16Array element: modulo 2^16, NaN as 0.
ToInt16(v) ==
    IF v = NaN THEN 0 ELSE ((v + 32768) % 65536) - 32768

\* private static generateWavBuffer(audioData, sampleRate): the fields of
\* the 44-byte header and the PCM samples behind it.
generateWavBuffer(audioData, sampleRate) ==
    LET bitsPerSample == 16
        numChannels == 1
        byteRate == sampleRate * numChannels * (bitsPerSample \div 8)
        blockAlign == numChannels * (bitsPerSample \div 8)
        pcmData == [i \in 1..Len(audioData) |->
                       ToInt16(RoundScaled(Clamp(audioData[i])))]
        pcmBufferLength == 2 * Len(pcmData)
    IN [chunkId |-> "RIFF",
        chunkSize |-> 36 + pcmBufferLength,
        format |-> "WAVE",
        subchunk1Id |-> "fmt ",
        subchunk1Size |-> 16,
        audioFormat |-> 1,
        numChannels |-> numChannels,
        sampleRate |-> sampleRate,
        byteRate |-> byteRate,
        blockAlign |-> blockAlign,
        bitsPerSample |-> bitsPerSample,
        subchunk2Id |-> "data",
        subchunk2Size |-> pcmBufferLength,
        pcmData |-> pcmData,
        length |-> 44 + pcmBufferLength]

\* An estimate for samples of four bytes.
estimateOutputSizeOfFloats(audioChunks) ==
    LET totalSamples == SumOfLengths(audioChunks)
        pcmBytes == totalSamples * 4
        headerBytes == 44
    IN headerBytes + pcmBytes

\* static estimateOutputSize(audioChunks)
estimateOutputSize(audioChunks) ==
    LET totalSamples == SumOfLengths(audioChunks)
        pcmBytes == totalSamples * 2
        headerBytes == 44
    IN headerBytes + pcmBytes

\* Number.prototype.toString: the decimal digits of a natural number.
RECURSIVE toString(_)
toString(n) ==
    IF n < 10 THEN <<n>> ELSE Append(toString(n \div 10), n % 10)

\* String.prototype.padStart(targetLength, '0')
RECURSIVE padStart(_, _)
padStart(digits, targetLength) ==
    IF Len(digits) >= targetLength THEN digits
    ELSE padStart(<<0>> \o digits, targetLength)

\* Lines 164-165: the path of the chunk with index i (from 0), as the
\* digits of chunk_<digits>.wav in chunkDir.
chunkPath(i) == padStart(toString(i + 1), 3)

\* What chunk.save(path) leaves at the path: the chunk, in the encoding of
\* the library the chunk comes from.
Saved(chunk) == <<[saved |-> chunk]>>

\* The state of a call that has just been made.
StitchCall(audioChunks, options, before) ==
    [audioChunks |-> audioChunks,
     options |-> options,
     before |-> before,
     pc |-> "called",
     error |-> "",
     combinedAudio |-> <<>>,
     wavBuffer |-> NoSuchFile,
     dirs |-> {},
     tempFile |-> NoSuchFile,
     outputFile |-> before,
     chunkFiles |-> <<>>,
     saves |-> 0,
     result |-> Null]

InitStitcher ==
    /\ enabled = TRUE
    /\ index = EmptyIndex(0)
    /\ stats = ZeroStats
    /\ indexFile = NoSnapshot
    /\ statsFile = NoSnapshot
    /\ files = [k \in CacheKeys |-> NoFile]
    /\ phase = "constructed"
    /\ now = 0
    /\ ops = 0
    /\ faults = 0
    /\ ret = Result("new", <<>>, 0, 0, Null, <<>>, FALSE)
    /\ keycalls = <<>>
    /\ segmenter = <<>>
    /\ audio = <<>>
    /\ calls = <<>>
    /\ retry = <<>>
    /\ \E n \in 0..MaxChunks :
         \E audioChunks \in [1..n -> AudioChunk], options \in StitchOptions,
            before \in {NoSuchFile, OldFile} :
            stitcher = StitchCall(audioChunks, options, before)

\* A rejection that leaves the output directory behind.
ThrowsAfterMkdir(error) ==
    stitcher' = [stitcher EXCEPT !.pc = "threw", !.error = error,
                                 !.dirs = @ \cup {"outputDir"}]

\* An awaited call rejects: stitchChunks rejects with the same error.
Throws(error) ==
    stitcher' = [stitcher EXCEPT !.pc = "threw", !.error = error]

\* A result whose duration is the rate divided by the samples.
StitchResultInverted(audioChunks, sampleRate) ==
    [outputPath |-> "outputPath",
     totalDuration |-> <<sampleRate, SumOfLengths(audioChunks)>>,
     totalSamples |-> SumOfLengths(audioChunks)]

\* Lines 98-103 (44-48 for a single chunk): the result object.  chunkPaths
\* is left out of the record when it is undefined.
StitchResult(audioChunks, sampleRate) ==
    [outputPath |-> "outputPath",
     totalDuration |-> <<SumOfLengths(audioChunks), sampleRate>>,
     totalSamples |-> SumOfLengths(audioChunks)]

WithChunkPaths(result, chunkPaths) ==
    [f \in DOMAIN result \cup {"chunkPaths"} |->
        IF f = "chunkPaths" THEN chunkPaths ELSE result[f]]

\* Lines 37-72: from the call to its first await.
Begin ==
    /\ stitcher.pc = "called"
    /\ LET audioChunks == stitcher.audioChunks
       IN IF Len(audioChunks) = 0
          THEN Throws("No audio chunks to stitch")
          ELSE IF Len(audioChunks) = 1
          THEN stitcher' = [stitcher EXCEPT !.pc = "save"]
          ELSE IF SampleRateMismatch(audioChunks)
          THEN Throws("Sample rate mismatch")
          ELSE stitcher' = [stitcher EXCEPT
                  !.combinedAudio = CombinedAudio(audioChunks),
                  !.wavBuffer =
                      <<generateWavBuffer(CombinedAudio(audioChunks),
                                          audioChunks[1].sampling_rate)>>,
                  !.pc = IF stitcher.options.tempDir THEN "mkdirTemp"
                         ELSE "mkdirOutput"]
    /\ UNCHANGED <<cacheVars, keycalls, segmenter, audio, calls, retry>>

\* Lines 43-48: the only chunk saves itself at outputPath.
SaveSingle ==
    /\ stitcher.pc = "save"
    /\ \/ stitcher' = [stitcher EXCEPT
             !.outputFile = Saved(stitcher.audioChunks[1]),
             !.saves = 1,
             !.pc = "returned",
             !.result = StitchResult(stitcher.audioChunks,
                                     stitcher.audioChunks[1].sampling_rate)]
       \/ \E left \in {stitcher.outputFile, PartialFile} :
             stitcher' = [stitcher EXCEPT !.outputFile = left,
                                          !.saves = 1,
                                          !.pc = "threw",
                                          !.error = "save"]
    /\ UNCHANGED <<cacheVars, keycalls, segmenter, audio, calls, retry>>

\* Line 77: mkdir(tempDir).
MkdirTemp ==
    /\ stitcher.pc = "mkdirTemp"
    /\ \/ stitcher' = [stitcher EXCEPT !.dirs = @ \cup {"tempDir"},
                                       !.pc = "writeTemp"]
       \/ Throws("mkdir")
    /\ UNCHANGED <<cacheVars, keycalls, segmenter, audio, calls, retry>>

\* Lines 78-79: the buffer is written to a file in tempDir.
WriteTemp ==
    /\ stitcher.pc = "writeTemp"
    /\ \/ stitcher' = [stitcher EXCEPT !.tempFile = stitcher.wavBuffer,
                                       !.pc = "mkdirOutput"]
       \/ \E left \in {stitcher.tempFile, PartialFile} :
             stitcher' = [stitcher EXCEPT !.tempFile = left,
                                          !.pc = "threw",
                                          !.error = "writeFile"]
    /\ UNCHANGED <<cacheVars, keycalls, segmenter, audio, calls, retry>>

\* Line 83: mkdir(dirname(outputPath)).
MkdirOutput ==
    /\ stitcher.pc = "mkdirOutput"
    /\ \/ stitcher' = [stitcher EXCEPT
             !.dirs = @ \cup {"outputDir"},
             !.pc = IF stitcher.options.tempDir THEN "rename"
                    ELSE "writeOutput"]
       \/ Throws("mkdir")
    /\ UNCHANGED <<cacheVars, keycalls, segmenter, audio, calls, retry>>

\* Lines 93-103: what follows the await that put the output in place.
AfterOutput(s) ==
    IF s.options.keepChunks /\ s.options.chunkDir
    THEN [s EXCEPT !.pc = "mkdirChunks"]
    ELSE [s EXCEPT !.pc = "returned",
                   !.result = StitchResult(s.audioChunks,
                                           s.audioChunks[1].sampling_rate)]

\* A move made by copying: cut short, it leaves a partial file at
\* outputPath.
RenameByCopy ==
    /\ stitcher.pc = "rename"
    /\ \/ stitcher' = AfterOutput([stitcher EXCEPT
                                      !.outputFile = stitcher.tempFile,
                                      !.tempFile = NoSuchFile])
       \/ \E left \in {stitcher.outputFile, PartialFile} :
             stitcher' = [stitcher EXCEPT !.outputFile = left,
                                          !.pc = "threw",
                                          !.error = "rename"]
    /\ UNCHANGED <<cacheVars, keycalls, segmenter, audio, calls, retry>>

\* Line 87: the file in tempDir is renamed to outputPath.
Rename ==
    /\ stitcher.pc = "rename"
    /\ \/ stitcher' = AfterOutput([stitcher EXCEPT
                                      !.outputFile = stitcher.tempFile,
                                      !.tempFile = NoSuchFile])
       \/ Throws("rename")
    /\ UNCHANGED <<cacheVars, keycalls, segmenter, audio, calls, retry>>

\* Line 89: the buffer is written to outputPath.
WriteOutput ==
    /\ stitcher.pc = "writeOutput"
    /\ \/ stitcher' = AfterOutput([stitcher EXCEPT
                                      !.outputFile = stitcher.wavBuffer])
       \/ \E left \in {stitcher.outputFile, PartialFile} :
             stitcher' = [stitcher EXCEPT !.outputFile = left,
                                          !.pc = "threw",
                                          !.error = "writeFile"]
    /\ UNCHANGED <<cacheVars, keycalls, segmenter, audio, calls, retry>>

\* Lines 159-171 and 98-103: saveIndividualChunks returns the paths
\* collected and stitchChunks returns.
AfterSaves(s) ==
    IF Len(s.chunkFiles) < Len(s.audioChunks)
    THEN [s EXCEPT !.pc = "saveChunk"]
    ELSE [s EXCEPT !.pc = "returned",
                   !.result =
                       WithChunkPaths(
                           StitchResult(s.audioChunks,
                                        s.audioChunks[1].sampling_rate),
                           [i \in 1..Len(s.chunkFiles) |->
                               s.chunkFiles[i].path])]

\* Line 159: mkdir(chunkDir).
MkdirChunks ==
    /\ stitcher.pc = "mkdirChunks"
    /\ \/ stitcher' = AfterSaves([stitcher EXCEPT
                                     !.dirs = @ \cup {"chunkDir"}])
       \/ Throws("mkdir")
    /\ UNCHANGED <<cacheVars, keycalls, segmenter, audio, calls, retry>>

\* Lines 163-169: one turn of the loop of saveIndividualChunks.
SaveChunk ==
    /\ stitcher.pc = "saveChunk"
    /\ LET i == Len(stitcher.chunkFiles)
       IN \/ stitcher' = AfterSaves([stitcher EXCEPT
                !.chunkFiles = Append(@,
                    [path |-> chunkPath(i),
                     file |-> Saved(stitcher.audioChunks[i + 1])]),
                !.saves = @ + 1])
          \/ \E left \in {NoSuchFile, PartialFile} :
                stitcher' = [stitcher EXCEPT
                    !.chunkFiles =
                        IF left = NoSuchFile THEN @
                        ELSE Append(@, [path |-> chunkPath(i),
                                        file |-> left]),
                    !.saves = @ + 1,
                    !.pc = "threw",
                    !.error = "save"]
    /\ UNCHANGED <<cacheVars, keycalls, segmenter, audio, calls, retry>>

NextStitcher ==
    \/ Begin
    \/ SaveSingle
    \/ MkdirTemp
    \/ WriteTemp
    \/ MkdirOutput
    \/ Rename
    \/ WriteOutput
    \/ MkdirChunks
    \/ SaveChunk

SpecStitcher == InitStitcher /\ [][NextStitcher]_vars

----------------------------------------------------------------------------
(* AudioStitcher.generateWavBuffer on its own: the conversion of samples   *)
(* to 16-bit PCM over a wider range of sample values.  The variable        *)
(* stitcher holds the call.                                                *)

MaxSample == 6          \* samples from -MaxSample / SampleScale up
MaxAudioLength == 2     \* up to MaxAudioLength samples to encode

\* The sample values encoded: -1.5 to 1.5 in quarters, and NaN.
PcmSamples == (-MaxSample..MaxSample) \cup {NaN}

InitPcm ==
    /\ enabled = TRUE
    /\ index = EmptyIndex(0)
    /\ stats = ZeroStats
    /\ indexFile = NoSnapshot
    /\ statsFile = NoSnapshot
    /\ files = [k \in CacheKeys |-> NoFile]
    /\ phase = "constructed"
    /\ now = 0
    /\ ops = 0
    /\ faults = 0
    /\ ret = Result("new", <<>>, 0, 0, Null, <<>>, FALSE)
    /\ keycalls = <<>>
    /\ segmenter = <<>>
    /\ audio = <<>>
    /\ calls = <<>>
    /\ retry = <<>>
    /\ \E n \in 0..MaxAudioLength :
         \E audioData \in [1..n -> PcmSamples], sampleRate \in SampleRates :
            stitcher = [audioData |-> audioData,
                        sampleRate |-> sampleRate,
                        pc |-> "encode",
                        wavBuffer |-> NoSuchFile]

\* The call of generateWavBuffer returns.
Encode ==
    /\ stitcher.pc = "encode"
    /\ stitcher' = [stitcher EXCEPT
          !.pc = "encoded",
          !.wavBuffer = <<generateWavBuffer(stitcher.audioData,
                                            stitcher.sampleRate)>>]
    /\ UNCHANGED <<cacheVars, keycalls, segmenter, audio, calls, retry>>

NextPcm == Encode

SpecPcm == InitPcm /\ [][NextPcm]_vars

----------------------------------------------------------------------------
(* AudioService (src/src/services/audio.ts) over the CacheService above.   *)
(* generateAudio is followed from await to await; its calls of cache.get   *)
(* and cache.set are the actions Get and Set.  A payload is known by its   *)
(* size; the file at outputPath is NoFile or a payload.                    *)

\* The AudioService between two calls of generateAudio.
Idle(tts, output) ==
    [tts |-> tts,
     pc |-> "idle",
     req |-> Null,
     cacheEnabled |-> FALSE,
     cachedPath |-> Null,
     before |-> output,
     output |-> output,
     engine |-> "",
     generated |-> NoFile,
     trace |-> <<>>,
     sets |-> <<>>,
     outcome |-> "",
     error |-> "",
     fromCache |-> FALSE]

\* createServices(): the cache service is constructed, the audio service is
\* constructed over it, its model not yet loaded.
InitAudio ==
    /\ enabled = TRUE
    /\ index = EmptyIndex(0)
    /\ stats = ZeroStats
    /\ indexFile = NoSnapshot
    /\ statsFile = NoSnapshot
    /\ files = [k \in CacheKeys |-> NoFile]
    /\ phase = "constructed"
    /\ now = 0
    /\ ops = 0
    /\ faults = 0
    /\ ret = Result("new", <<>>, 0, 0, Null, <<>>, FALSE)
    /\ keycalls = <<>>
    /\ segmenter = <<>>
    /\ stitcher = <<>>
    /\ calls = <<>>
    /\ retry = <<>>
    /\ audio = Idle(FALSE, NoFile)

\* async initialize(modelId, options): the model is loaded, or the load
\* fails and this.tts stays undefined.
InitializeAudio ==
    /\ audio.pc = "idle"
    /\ ~audio.tts
    /\ phase = "ready"
    /\ \E loaded \in BOOLEAN : audio' = [audio EXCEPT !.tts = loaded]
    /\ UNCHANGED <<cacheVars, keycalls, segmenter, stitcher, calls, retry>>

\* A variant that generates whatever cache.get returned.
AfterGetIgnoringCache(cachedPath) == "generate"

\* Line 45: if (cachedPath), after cache.get has returned.
AfterGet(cachedPath) == IF cachedPath # Null THEN "copy" ELSE "generate"

\* The call has returned or thrown.
Finished(a, outcome, error) ==
    [a EXCEPT !.pc = "idle", !.outcome = outcome, !.error = error]

\* Lines 38-45: generateAudio(text, voice, outputPath, options) up to the
\* return of cache.get, or up to tts.generate without an enabled cache.
GenerateAudio(req) ==
    /\ audio.pc = "idle"
    /\ phase = "ready"
    /\ LET call == [Idle(audio.tts, audio.output) EXCEPT
                       !.req = req, !.cacheEnabled = enabled]
       IN IF ~audio.tts
          THEN /\ audio' = Finished(call, "threw", "not initialized")
               /\ UNCHANGED <<cacheVars, keycalls, segmenter, stitcher,
                              calls, retry>>
          ELSE IF enabled
          THEN /\ Get(req)
               /\ audio' = [call EXCEPT !.cachedPath = ret'.result,
                                        !.trace = <<"get">>,
                                        !.pc = AfterGet(ret'.result)]
          ELSE /\ audio' = [call EXCEPT !.pc = "generate"]
               /\ UNCHANGED <<cacheVars, keycalls, segmenter, stitcher,
                              calls, retry>>

GenerateAudioAny == \E req \in CacheRequests : GenerateAudio(req)

\* Lines 47-60: the cached file is copied to outputPath and the call
\* returns, or mkdir or copyFile throws.
CopyCached ==
    /\ audio.pc = "copy"
    /\ \/ /\ audio' = [Finished(audio, "returned", "") EXCEPT
                          !.output = files[KeyOf(audio.req)],
                          !.trace = Append(@, "copy"),
                          !.fromCache = TRUE]
          /\ UNCHANGED faults
       \/ /\ faults < MaxFaults
          /\ faults' = faults + 1
          /\ audio' = Finished(audio, "threw", "copyFile")
    /\ UNCHANGED <<enabled, index, stats, indexFile, statsFile, files, phase,
                   now, ops, ret, keycalls, segmenter, stitcher, calls, retry>>

\* A variant that goes on to save after the engine has failed.
GenerateSwallowingFailure ==
    /\ audio.pc = "generate"
    /\ \/ \E size \in 1..MaxPayload :
             audio' = [audio EXCEPT !.engine = "ok",
                                    !.generated = size,
                                    !.trace = Append(@, "generate"),
                                    !.pc = "save"]
       \/ audio' = [audio EXCEPT !.engine = "failed",
                                 !.generated = 1,
                                 !.trace = Append(@, "generate"),
                                 !.pc = "save"]
    /\ UNCHANGED <<cacheVars, keycalls, segmenter, stitcher, calls, retry>>

\* Line 72: await this.tts.generate(text, generationOptions) returns the
\* audio, or throws.
Generate ==
    /\ audio.pc = "generate"
    /\ \/ \E size \in 1..MaxPayload :
             audio' = [audio EXCEPT !.engine = "ok",
                                    !.generated = size,
                                    !.trace = Append(@, "generate"),
                                    !.pc = "save"]
       \/ audio' = [Finished(audio, "threw", "generate") EXCEPT
                       !.engine = "failed",
                       !.trace = Append(@, "generate")]
    /\ UNCHANGED <<cacheVars, keycalls, segmenter, stitcher, calls, retry>>

\* Lines 75-81: the output directory is made and the audio saved at
\* outputPath; without an enabled cache the call returns.
SaveOutput ==
    /\ audio.pc = "save"
    /\ \/ /\ audio' = [(IF enabled THEN [audio EXCEPT !.pc = "cache"]
                        ELSE Finished(audio, "returned", "")) EXCEPT
                          !.output = audio.generated,
                          !.trace = Append(@, "save")]
          /\ UNCHANGED faults
       \/ /\ faults < MaxFaults
          /\ faults' = faults + 1
          /\ audio' = Finished(audio, "threw", "save")
    /\ UNCHANGED <<enabled, index, stats, indexFile, statsFile, files, phase,
                   now, ops, ret, keycalls, segmenter, stitcher, calls, retry>>

\* Lines 82-94: cache.set(text, voice, outputPath, options), which catches
\* its own errors, and the return.
CacheResult ==
    /\ audio.pc = "cache"
    /\ Set(audio.req, audio.output)
    /\ audio' = [Finished(audio, "returned", "") EXCEPT
                    !.trace = Append(@, "set"),
                    !.sets = Append(@, audio.req)]

NextAudio ==
    \/ Initialize
    \/ InitializeAudio
    \/ GenerateAudioAny
    \/ CopyCached
    \/ Generate
    \/ SaveOutput
    \/ CacheResult

SpecAudio == InitAudio /\ [][NextAudio]_vars

----------------------------------------------------------------------------
(* AudioService.streamAudio on its own.  The variable audio holds the      *)
(* call: the chunks the stream yields and the file at outputPath.          *)

\* The samples a file written by chunk.save holds, none for no file or one
\* that was there before.
SamplesOf(file) ==
    IF file = NoSuchFile \/ file = OldFile \/ file = PartialFile THEN <<>>
    ELSE file[1].saved.audio

InitStream ==
    /\ enabled = TRUE
    /\ index = EmptyIndex(0)
    /\ stats = ZeroStats
    /\ indexFile = NoSnapshot
    /\ statsFile = NoSnapshot
    /\ files = [k \in CacheKeys |-> NoFile]
    /\ phase = "constructed"
    /\ now = 0
    /\ ops = 0
    /\ faults = 0
    /\ ret = Result("new", <<>>, 0, 0, Null, <<>>, FALSE)
    /\ keycalls = <<>>
    /\ segmenter = <<>>
    /\ stitcher = <<>>
    /\ calls = <<>>
    /\ retry = <<>>
    /\ \E n \in 0..MaxChunks :
         \E yielded \in [1..n -> AudioChunk], tts \in BOOLEAN,
            before \in {NoSuchFile, OldFile} :
            audio = [tts |-> tts,
                     yielded |-> yielded,
                     chunks |-> <<>>,
                     pc |-> "called",
                     before |-> before,
                     output |-> before,
                     error |-> ""]

\* Lines 103-105: streamAudio is called.
StreamAudio ==
    /\ audio.pc = "called"
    /\ audio' = IF audio.tts THEN [audio EXCEPT !.pc = "stream"]
                ELSE [audio EXCEPT !.pc = "threw",
                                   !.error = "not initialized"]
    /\ UNCHANGED <<cacheVars, keycalls, segmenter, stitcher, calls, retry>>

\* Lines 116-118: one turn of the for await loop: the stream yields its
\* next chunk, which is pushed, or throws.
NextChunk ==
    /\ audio.pc = "stream"
    /\ Len(audio.chunks) < Len(audio.yielded)
    /\ \/ audio' = [audio EXCEPT
                       !.chunks = Append(@, audio.yielded[Len(@) + 1])]
       \/ audio' = [audio EXCEPT !.pc = "threw", !.error = "generateStream"]
    /\ UNCHANGED <<cacheVars, keycalls, segmenter, stitcher, calls, retry>>

\* Line 123: const finalAudio = chunks[chunks.length - 1]
finalAudio(chunks) == chunks[Len(chunks)]

\* Lines 121-137: the stream is done; with chunks collected the output
\* directory is made and finalAudio saved at outputPath; the call returns.
SaveFinal ==
    /\ audio.pc = "stream"
    /\ Len(audio.chunks) = Len(audio.yielded)
    /\ IF Len(audio.chunks) > 0
       THEN \/ audio' = [audio EXCEPT
                            !.output = Saved(finalAudio(audio.chunks)),
                            !.pc = "returned"]
            \/ \E left \in {audio.output, PartialFile} :
                  audio' = [audio EXCEPT !.output = left,
                                         !.pc = "threw",
                                         !.error = "save"]
       ELSE audio' = [audio EXCEPT !.pc = "returned"]
    /\ UNCHANGED <<cacheVars, keycalls, segmenter, stitcher, calls, retry>>

NextStream ==
    \/ StreamAudio
    \/ NextChunk
    \/ SaveFinal

SpecStream == InitStream /\ [][NextStream]_vars

----------------------------------------------------------------------------
(* get and set calls in flight together on one CacheService.  Each call    *)
(* runs from one await to the next in one step; the steps of different     *)
(* calls interleave.  calls is [dirs, inflight]: the entry directories     *)
(* that exist, and the calls made, each with its position and its locals   *)
(* (entry: the entry object it holds, list: the entries array of           *)
(* enforceConstraints, snapshot: the text handed to writeFile by           *)
(* saveIndex, after: where the call goes on once the await returns).       *)

MaxCalls == 2       \* calls of get and set made

\* The stores the calls start on: initialized, within its budgets, every
\* entry with its file and directory.
ConsistentStores ==
    { e \in UNION { [1..n -> [key : CacheKeys, createdAt : 0..MaxTime,
                              size : 1..MaxPayload]] : n \in 0..maxEntries } :
        /\ \A i, j \in 1..Len(e) : e[i].key = e[j].key => i = j
        /\ SumSize(e) <= maxSize }

InitConcurrent ==
    /\ enabled = TRUE
    /\ phase = "ready"
    /\ ops = 0
    /\ faults = 0
    /\ ret = Result("initialize", <<>>, 0, 0, Null, <<>>, FALSE)
    /\ keycalls = <<>>
    /\ segmenter = <<>>
    /\ stitcher = <<>>
    /\ audio = <<>>
    /\ retry = <<>>
    /\ \E e \in ConsistentStores, t \in 0..MaxTime :
         /\ \A i \in 1..Len(e) : e[i].createdAt <= t
         /\ now = t
         /\ index = [entries |-> [i \in 1..Len(e) |->
                                     CacheEntry(e[i].key, e[i].createdAt,
                                                e[i].createdAt, e[i].size)],
                     totalSize |-> SumSize(e),
                     lastCleanup |-> t]
         /\ indexFile = saveIndex(NoSnapshot, index)
         /\ stats = updateStats(ZeroStats, index)
         /\ statsFile = saveStats(NoSnapshot, stats)
         /\ files = [k \in CacheKeys |->
                        IF \E i \in 1..Len(e) : e[i].key = k
                        THEN e[CHOOSE i \in 1..Len(e) : e[i].key = k].size
                        ELSE NoFile]
         /\ calls = [dirs |-> { e[i].key : i \in 1..Len(e) },
                     inflight |-> <<>>]

\* A call that has just been made.
NewCall(op, key, size) ==
    [op |-> op, key |-> key, size |-> size, pc |-> "start", after |-> "",
     entry |-> <<>>, list |-> <<>>, snapshot |-> <<>>, result |-> Null]

\* The state a step works on: the fields of the service, the files, and the
\* call taking the step.
Running(c) ==
    [index |-> index, stats |-> stats, statsFile |-> statsFile,
     indexFile |-> indexFile, files |-> files, dirs |-> calls.dirs,
     call |-> c]

\* this.stats.misses++; this.updateStats(); return null
Miss(W) ==
    LET st == updateStats([W.stats EXCEPT !.misses = @ + 1], W.index)
    IN [W EXCEPT !.stats = st,
                 !.statsFile = saveStats(@, st),
                 !.call.pc = "done"]

\* Lines 206-211: deleteEntry(key) up to its await: it returns at once
\* when the index has no such entry, and awaits fs.rm otherwise.
DeleteStart(W, key, after) ==
    IF HasKey(W.index.entries, key)
    THEN [W EXCEPT !.call.pc = "rm",
                   !.call.entry = <<Lookup(W.index.entries, key)>>,
                   !.call.after = after]
    ELSE [W EXCEPT !.call.pc = "yield", !.call.after = after]

\* Lines 224-246: the loops of enforceConstraints up to the next await:
\* the size loop while loop is "size", then the count loop, then the
\* return to set.
EvictLoop(W, loop) ==
    LET list == W.call.list
    IN IF loop = "size" /\ W.index.totalSize > maxSize /\ list # <<>>
       THEN DeleteStart([W EXCEPT !.call.list = Tail(list)],
                        Head(list).key, "size")
       ELSE IF Len(list) > maxEntries
       THEN DeleteStart([W EXCEPT !.call.list = Tail(list)],
                        Head(list).key, "count")
       ELSE [W EXCEPT !.call.pc = "yield", !.call.after = "save"]

\* saveIndex() is called: the index is stringified, the write awaited.
SaveIndexStart(W, after) ==
    [W EXCEPT !.call.snapshot = <<W.index>>,
              !.call.pc = "saveIndex",
              !.call.after = after]

\* The call goes on after an await that returned: after deleteEntry in
\* get ("miss"), in the loops of enforceConstraints ("size", "count"), and
\* after enforceConstraints in set ("save").
Resume(W) ==
    CASE W.call.after = "miss" -> Miss(W)
      [] W.call.after \in {"size", "count"} -> EvictLoop(W, W.call.after)
      [] W.call.after = "save" -> SaveIndexStart(W, "stats")

\* Lines 118-139: get up to its first await.
GetStart(W) ==
    LET key == W.call.key
    IN IF ~HasKey(W.index.entries, key) THEN Miss(W)
       ELSE IF isExpired(Lookup(W.index.entries, key), now)
       THEN DeleteStart(W, key, "miss")
       ELSE [W EXCEPT !.call.pc = "access",
                      !.call.entry = <<Lookup(W.index.entries, key)>>]

\* Lines 139-153: fs.access has returned or thrown.
AccessDone(W) ==
    LET key == W.call.key
        entry == W.call.entry[1]
    IN IF W.files[key] # NoFile
       THEN SaveIndexStart(
                IF HasKey(W.index.entries, key)
                     /\ Lookup(W.index.entries, key) = entry
                THEN [W EXCEPT !.index.entries[Pos(W.index.entries, key)]
                                   .accessedAt = now]
                ELSE W,
                "hit")
       ELSE DeleteStart(W, key, "miss")

\* Lines 211-217: fs.rm has returned; the size is subtracted and the key
\* deleted.
RmDone(W) ==
    LET key == W.call.entry[1].key
    IN Resume([W EXCEPT
                  !.files[key] = NoFile,
                  !.dirs = @ \ {key},
                  !.index.totalSize = @ - W.call.entry[1].size,
                  !.index.entries =
                      IF HasKey(@, key) THEN RemoveAt(@, Pos(@, key))
                      ELSE @])

\* The write of index.json lands; get counts the hit and returns the path,
\* set updates the stats and returns.
SaveIndexDone(W) ==
    LET st == updateStats(IF W.call.after = "hit"
                          THEN [W.stats EXCEPT !.hits = @ + 1]
                          ELSE W.stats,
                          W.index)
    IN [W EXCEPT !.indexFile = W.call.snapshot,
                 !.stats = st,
                 !.statsFile = saveStats(@, st),
                 !.call.pc = "done",
                 !.call.result = IF W.call.after = "hit"
                                 THEN W.call.entry[1].filePath
                                 ELSE Null]

\* Lines 158-167: set up to the return of fs.mkdir(entryDir).
SetStart(W) ==
    [W EXCEPT !.dirs = @ \cup {W.call.key}, !.call.pc = "copyFile"]

\* The catch clause of set.
SetFailed(W) == [W EXCEPT !.call.pc = "done"]

\* Line 170: fs.copyFile has returned, or thrown for want of the directory.
CopyFileDone(W) ==
    IF W.call.key \notin W.dirs THEN SetFailed(W)
    ELSE [W EXCEPT !.files[W.call.key] = W.call.size, !.call.pc = "stat"]

\* Lines 173-189: fs.stat has returned the size of the file now at the
\* path, or thrown; the entry is made and the metadata write awaited.
StatDone(W) ==
    IF W.files[W.call.key] = NoFile THEN SetFailed(W)
    ELSE [W EXCEPT
             !.call.entry = <<CacheEntry(W.call.key, now, now,
                                         W.files[W.call.key])>>,
             !.call.pc = "writeFile"]

\* Lines 189-196: the metadata write has returned, or thrown for want of
\* the directory; the index is updated and enforceConstraints begins.
WriteFileDone(W) ==
    IF W.call.key \notin W.dirs THEN SetFailed(W)
    ELSE LET idx == UpdateIndex(W.index, W.call.entry[1])
         IN EvictLoop([W EXCEPT !.index = idx,
                                !.call.list = SortByAccessedAt(idx.entries)],
                      "size")

\* What the step of a call at position pc does.
StepOf(W) ==
    CASE W.call.pc = "rm" -> RmDone(W)
      [] W.call.pc = "yield" -> Resume(W)
      [] W.call.pc = "access" -> AccessDone(W)
      [] W.call.pc = "saveIndex" -> SaveIndexDone(W)
      [] W.call.pc = "copyFile" -> CopyFileDone(W)
      [] W.call.pc = "stat" -> StatDone(W)
      [] W.call.pc = "writeFile" -> WriteFileDone(W)

\* The state after a step that led to W, taken by call i.
Becomes(W, i) ==
    /\ index' = W.index
    /\ stats' = W.stats
    /\ statsFile' = W.statsFile
    /\ indexFile' = W.indexFile
    /\ files' = W.files
    /\ calls' = [dirs |-> W.dirs,
                 inflight |-> [j \in 1..i |->
                                  IF j = i THEN W.call
                                  ELSE calls.inflight[j]]]
    /\ UNCHANGED <<enabled, phase, now, ops, faults, ret, keycalls,
                   segmenter, stitcher, audio, retry>>

\* get(text, voice, options) is called.
CallGet(req) ==
    /\ Len(calls.inflight) < MaxCalls
    /\ Becomes(GetStart(Running(NewCall("get", KeyOf(req), 0))),
               Len(calls.inflight) + 1)

\* set(text, voice, audioFilePath, options) is called; size is the size of
\* the file at audioFilePath.
CallSet(req, size) ==
    /\ Len(calls.inflight) < MaxCalls
    /\ Becomes(SetStart(Running(NewCall("set", KeyOf(req), size))),
               Len(calls.inflight) + 1)

\* The await of call i returns and the call runs to its next await.
Step(i, pcs) ==
    /\ calls.inflight[i].pc \in pcs
    /\ \E W \in {StepOf(Running(calls.inflight[i]))} :
         /\ index' = W.index
         /\ stats' = W.stats
         /\ statsFile' = W.statsFile
         /\ indexFile' = W.indexFile
         /\ files' = W.files
         /\ calls' = [dirs |-> W.dirs,
                      inflight |-> [calls.inflight EXCEPT ![i] = W.call]]
         /\ UNCHANGED <<enabled, phase, now, ops, faults, ret, keycalls,
                        segmenter, stitcher, audio, retry>>

CallGetAny == \E req \in CacheRequests : CallGet(req)

CallSetAny ==
    \E req \in CacheRequests, size \in 1..MaxPayload : CallSet(req, size)

GetStep ==
    \E i \in 1..Len(calls.inflight) :
        /\ calls.inflight[i].op = "get"
        /\ Step(i, {"rm", "yield", "access", "saveIndex"})

SetStep ==
    \E i \in 1..Len(calls.inflight) :
        /\ calls.inflight[i].op = "set"
        /\ Step(i, {"copyFile", "stat", "writeFile", "rm", "yield",
                    "saveIndex"})

NextConcurrent ==
    \/ CallGetAny
    \/ CallSetAny
    \/ GetStep
    \/ SetStep

SpecConcurrent == InitConcurrent /\ [][NextConcurrent]_vars

----------------------------------------------------------------------------
(* withRetry and withNetworkRetry (src/src/errors.ts).  One call is        *)
(* followed from await to await: the operation settles, the timer fires.   *)
(* Delays are in seconds.                                                  *)

MaxAttempts == 3    \* maxAttempts runs over 0..MaxAttempts
MaxDelay == 3       \* baseDelay and maxDelay run over 1..MaxDelay

\* Lines 96-97: baseDelay 2000 and maxDelay 10000 of withNetworkRetry.
NetworkBaseDelay == 2
NetworkMaxDelay == 10

\* The values an attempt throws: a NetworkError, an Error whose message
\* names a network failure ('network', 'timeout', 'ECONNREFUSED',
\* 'ENOTFOUND'), any other Error, and a string that is not an Error.
Thrown ==
    { [isError |-> TRUE, name |-> "NetworkError", message |-> "other"],
      [isError |-> TRUE, name |-> "Error", message |-> "network"],
      [isError |-> TRUE, name |-> "Error", message |-> "other"],
      [isError |-> FALSE, name |-> "string", message |-> "network"] }

\* Line 59: new Error('No attempts made')
NoAttemptsMade ==
    [isError |-> TRUE, name |-> "Error", message |-> "No attempts made"]

\* Line 65: error instanceof Error ? error : new Error(String(error))
AsError(error) ==
    IF error.isError THEN error
    ELSE [isError |-> TRUE, name |-> "Error", message |-> error.message]

\* Line 58: { ...DEFAULT_RETRY_OPTIONS, ...options } for the options of a
\* direct call: any attempts and delays, the default retryCondition or a
\* retryCondition that is undefined.
WithRetryConfigs ==
    [maxAttempts : 0..MaxAttempts, baseDelay : 1..MaxDelay,
     maxDelay : 1..MaxDelay, exponential : BOOLEAN,
     retryCondition : {"default", "undefined"}]

\* Lines 94-104: the options withNetworkRetry(operation, maxAttempts) sets.
WithNetworkRetryConfigs ==
    [maxAttempts : 0..MaxAttempts, baseDelay : {NetworkBaseDelay},
     maxDelay : {NetworkMaxDelay}, exponential : {TRUE},
     retryCondition : {"network"}]

\* A variant that retries every error.
retryConditionAlways(config, error) == TRUE

\* config.retryCondition?.(lastError): the default of line 50, the
\* condition of lines 98-103, undefined when the option is undefined.
retryCondition(config, error) ==
    CASE config.retryCondition = "default" -> error.name = "NetworkError"
      [] config.retryCondition = "network" ->
            error.name = "NetworkError" \/ error.message = "network"
      [] OTHER -> FALSE

\* A variant of the loop test that admits one more attempt.
LoopTestInclusive(config, attempt) == attempt <= config.maxAttempts + 1

\* Line 61: attempt <= config.maxAttempts
LoopTest(config, attempt) == attempt <= config.maxAttempts

\* Math.pow(2, n)
RECURSIVE Pow2(_)
Pow2(n) == IF n <= 0 THEN 1 ELSE 2 * Pow2(n - 1)

\* A variant without the cap.
delayUncapped(config, attempt) ==
    IF config.exponential
    THEN config.baseDelay * Pow2(attempt - 1)
    ELSE config.baseDelay

\* Lines 78-80
delay(config, attempt) ==
    IF config.exponential
    THEN IF config.baseDelay * Pow2(attempt - 1) < config.maxDelay
         THEN config.baseDelay * Pow2(attempt - 1)
         ELSE config.maxDelay
    ELSE config.baseDelay

InitRetry ==
    /\ enabled = TRUE
    /\ index = EmptyIndex(0)
    /\ stats = ZeroStats
    /\ indexFile = NoSnapshot
    /\ statsFile = NoSnapshot
    /\ files = [k \in CacheKeys |-> NoFile]
    /\ phase = "constructed"
    /\ now = 0
    /\ ops = 0
    /\ faults = 0
    /\ ret = Result("new", <<>>, 0, 0, Null, <<>>, FALSE)
    /\ keycalls = <<>>
    /\ segmenter = <<>>
    /\ stitcher = <<>>
    /\ audio = <<>>
    /\ calls = <<>>
    /\ \E config \in WithRetryConfigs \cup WithNetworkRetryConfigs :
          retry = [config |-> config, pc |-> "called", attempt |-> 0,
                   invocations |-> 0, thrown |-> <<>>, waits |-> <<>>,
                   lastError |-> NoAttemptsMade, result |-> <<>>]

\* The head of the for loop with attempt set: the operation is invoked, or
\* the loop ends and line 86 throws lastError.
LoopHead(r, attempt) ==
    IF LoopTest(r.config, attempt)
    THEN [r EXCEPT !.attempt = attempt, !.pc = "operation",
                   !.invocations = @ + 1]
    ELSE [r EXCEPT !.attempt = attempt, !.pc = "threw"]

\* withRetry(operation, options) is called.
WithRetry ==
    /\ retry.pc = "called"
    /\ retry' = LoopHead(retry, 1)
    /\ UNCHANGED <<cacheVars, keycalls, segmenter, stitcher, audio, calls>>

\* Line 63: the operation resolves and its value is returned.
OperationResolves ==
    /\ retry.pc = "operation"
    /\ retry' = [retry EXCEPT !.pc = "returned",
                              !.result = <<retry.attempt>>]
    /\ UNCHANGED <<cacheVars, keycalls, segmenter, stitcher, audio, calls>>

\* Lines 64-82: the operation rejects with error.
OperationRejects(error) ==
    /\ retry.pc = "operation"
    /\ LET lastError == AsError(error)
           r == [retry EXCEPT
                   !.lastError = lastError,
                   !.thrown = Append(@, [attempt |-> retry.attempt,
                                         error |-> lastError])]
       IN retry' =
            IF ~retryCondition(retry.config, lastError)
            THEN [r EXCEPT !.pc = "threw"]
            ELSE IF retry.attempt = retry.config.maxAttempts
            THEN [r EXCEPT !.pc = "threw"]
            ELSE [r EXCEPT
                    !.pc = "setTimeout",
                    !.waits = Append(@, [after |-> retry.attempt,
                                         delay |-> delay(retry.config,
                                                         retry.attempt)])]
    /\ UNCHANGED <<cacheVars, keycalls, segmenter, stitcher, audio, calls>>

\* Line 82: the timer fires and the loop goes on with attempt++.
TimerFires ==
    /\ retry.pc = "setTimeout"
    /\ retry' = LoopHead(retry, retry.attempt + 1)
    /\ UNCHANGED <<cacheVars, keycalls, segmenter, stitcher, audio, calls>>

OperationRejectsAny == \E error \in Thrown : OperationRejects(error)

NextRetry ==
    \/ WithRetry
    \/ OperationResolves
    \/ OperationRejectsAny
    \/ TimerFires

SpecRetry == InitRetry /\ [][NextRetry]_vars

\* Every attempt settles and every timer fires.
SpecRetryFair == SpecRetry /\ WF_vars(NextRetry)

----------------------------------------------------------------------------
(* The claims.                                                             *)

\* A step that is a call of the method op.
CallOf(op) == ops' = ops + 1 /\ ret'.op = op

\* For every deleted entry, the entries deleted after it and the entries
\* left in the index were accessed no earlier.
DeletedOldestFirst(evicted, remaining) ==
    \A i \in 1..Len(evicted) :
        /\ \A j \in (i + 1)..Len(evicted) :
              evicted[j].accessedAt >= evicted[i].accessedAt
        /\ \A j \in 1..Len(remaining) :
              remaining[j].accessedAt >= evicted[i].accessedAt

\* C1: after every completed operation index.totalSize is the sum of the
\* sizes of the entries in the index, also after a set that overwrites the
\* entry of its key.
C1_TotalSizeIsSum == index.totalSize = SumSize(index.entries)

\* C2: on an enabled store a set followed by a get of the same key returns
\* the path of the cached copy, adds one to hits and leaves misses alone.
\* Stated for the cases the claim can mean: the set ran to its end with a
\* payload that fits the size budget, and since then the entry has not
\* expired and its file has not been removed behind the store's back.
C2_RoundTrip ==
    [][(/\ enabled
        /\ ret.op = "set" /\ ~ret.threw /\ ret.size <= maxSize
        /\ maxEntries >= 1
        /\ CallOf("get") /\ ret'.key = ret.key
        /\ HasKey(index.entries, ret.key)
              => /\ ret'.at - Lookup(index.entries, ret.key).createdAt
                    <= maxAge
                 /\ files[ret.key] # NoFile)
       => /\ ret'.result = cachedFilePath(ret.key)
          /\ files'[ret.key] = ret.size
          /\ stats'.hits = stats.hits + 1
          /\ stats'.misses = stats.misses]_vars

C5_ExpiredIsMiss ==
    [][(/\ CallOf("get")
        /\ HasKey(index.entries, ret'.key)
        /\ ret'.at - Lookup(index.entries, ret'.key).createdAt > maxAge)
       => /\ ret'.result = Null
          /\ stats'.misses = stats.misses + 1
          /\ stats'.hits = stats.hits
          /\ ~HasKey(index'.entries, ret'.key)
          /\ stats'.totalEntries = Len(index.entries) - 1]_vars

C5_Witness ==
    /\ ret.op = "get"
    /\ ret.result = Null
    /\ Len(ret.evicted) = 1
    /\ ret.at - ret.evicted[1].createdAt > maxAge
    /\ ret.at - ret.evicted[1].accessedAt <= maxAge
    /\ files[ret.key] # NoFile \/ faults = 0

\* C6: after every completed set, get and initialize of an enabled store
\* the snapshot in index.json equals the in-memory index.
C6_SnapshotIsIndex ==
    (enabled /\ ret.op \in {"set", "get", "initialize"})
        => indexFile = <<index>>

\* The options with the documented defaults put in for omitted fields.
Documented(options) ==
    [speed |-> IF options.speed = Undefined THEN 10 ELSE options.speed,
     temperature |-> IF options.temperature = Undefined THEN 7
                     ELSE options.temperature]

SameInput(a, b) ==
    /\ a.text = b.text
    /\ a.voice = b.voice
    /\ Documented(a.options) = Documented(b.options)

C8_DegradedStore ==
    [][/\ (CallOf("initialize") /\ ret'.threw) => ~enabled'
       /\ (~enabled /\ ops' = ops + 1)
            => /\ ~enabled'
               /\ ret'.result = Null
               /\ UNCHANGED <<index, stats, files, indexFile, statsFile>>]_vars

C8_Witness ==
    /\ ~enabled
    /\ ret.op = "set"
    /\ ops >= 3

\* C9: a set in which creating the directory, copying the payload, reading
\* its size or writing the metadata fails returns normally and leaves the
\* index entries and index.totalSize as they were.
C9_FailedSetKeepsIndex ==
    [][(CallOf("set") /\ ret'.threw)
       => /\ ret'.result = Null
          /\ index'.entries = index.entries
          /\ index'.totalSize = index.totalSize]_vars

C9_Witness ==
    /\ ret.op = "set"
    /\ ret.threw
    /\ index.entries # <<>>
    /\ files[ret.key] = ret.size
    /\ ~HasKey(index.entries, ret.key)

\* C10: get returns a path only when the payload file exists; for an entry
\* whose file is gone it returns null, counts a miss, removes the entry and
\* takes its size off index.totalSize.
C10_SelfHealing ==
    [][/\ (CallOf("get") /\ ret'.result # Null) => files[ret'.key] # NoFile
       /\ (/\ CallOf("get")
           /\ HasKey(index.entries, ret'.key)
           /\ files[ret'.key] = NoFile)
          => /\ ret'.result = Null
             /\ stats'.misses = stats.misses + 1
             /\ ~HasKey(index'.entries, ret'.key)
             /\ index'.totalSize
                  = index.totalSize - Lookup(index.entries, ret'.key).size]_vars

C10_Witness ==
    /\ ret.op = "get"
    /\ ret.result = Null
    /\ Len(ret.evicted) = 1
    /\ ret.at - ret.evicted[1].createdAt <= maxAge
    /\ stats.totalEntries = Len(index.entries)

\* C11: an initialize that finds index.json missing or damaged, and whose
\* directory creation succeeds, leaves the store enabled with an index of no
\* entries and totalSize 0.
C11_DamagedSnapshotFallsBack ==
    [][(/\ CallOf("initialize")
        /\ enabled
        /\ indexFile \in {NoSnapshot, Unparseable, <<NotAnIndex>>}
        /\ faults' = faults)
       => /\ enabled'
          /\ "entries" \in DOMAIN index'
          /\ index'.entries = <<>>
          /\ index'.totalSize = 0]_vars

\* C12: after a clear() on an enabled store in which no filesystem call
\* fails, the index has no entries and totalSize 0 and the stats are
\* hits 0, misses 0, totalEntries 0, totalSize 0, hitRate 0.
C12_ClearResets ==
    [][(CallOf("clear") /\ enabled /\ faults' = faults)
       => /\ index'.entries = <<>>
          /\ index'.totalSize = 0
          /\ stats' = ZeroStats]_vars

\* hitRate, kept as <<numerator, denominator>>, is the fraction n / d.
IsFraction(hitRate, n, d) == hitRate[1] * d = n * hitRate[2]

\* C13: after every get on an enabled store hitRate is
\* hits / (hits + misses); while hits + misses is 0, hitRate is 0.
C13_HitRate ==
    [][/\ (CallOf("get") /\ enabled)
            => /\ stats'.hits + stats'.misses > 0
               /\ IsFraction(stats'.hitRate, stats'.hits,
                             stats'.hits + stats'.misses)
       /\ (ops' = ops + 1 /\ stats'.hits + stats'.misses = 0)
            => stats'.hitRate[1] = 0]_vars

C13_Witness ==
    /\ enabled
    /\ ret.op = "get"
    /\ stats.hits = 1
    /\ stats.misses = 1
    /\ stats.hitRate = <<1, 2>>

\* A chunk that is one word: it holds no whitespace.
IsWord(chunk) == \A j \in 1..Len(chunk) : chunk[j] \notin WhiteSpace

\* C14: every chunk splitTextIntoChunks returns is at most maxChunkSize long,
\* except a chunk that is one single word longer than maxChunkSize.
C14_ChunkLengthBound ==
    segmenter.returned
      => \A i \in 1..Len(segmenter.chunks) :
            \/ Len(segmenter.chunks[i]) <= segmenter.maxChunkSize
            \/ IsWord(segmenter.chunks[i])

ScenarioChunk1 ==
    <<"H", "e", "l", "l", "o", " ", "w", "o", "r", "l", "d", ".">>

ScenarioChunk2 ==
    <<"T", "h", "i", "s", " ", "i", "s", " ", "a", " ", "t", "e", "s", "t">>

ScenarioChunk3 ==
    <<"s", "e", "n", "t", "e", "n", "c", "e", " ", "t", "h", "a", "t", " ",
      "i", "s">>

ScenarioChunk4 ==
    <<"q", "u", "i", "t", "e", " ", "l", "o", "n", "g", " ", "i", "n", "d",
      "e", "e", "d", ".">>

\* C15: the documented text segmented with maxChunkSize 20 yields the four
\* chunks "Hello world.", "This is a test", "sentence that is" and
\* "quite long indeed.", in that order.
C15_Scenario ==
    (/\ segmenter.returned
     /\ segmenter.text = ScenarioText
     /\ segmenter.maxChunkSize = ScenarioChunkSize)
      => segmenter.chunks = <<ScenarioChunk1, ScenarioChunk2,
                              ScenarioChunk3, ScenarioChunk4>>

\* The non-whitespace characters of a string, in order.
RECURSIVE NonWhiteSpace(_)
NonWhiteSpace(str) ==
    IF str = <<>> THEN <<>>
    ELSE (IF Head(str) \in WhiteSpace THEN <<>> ELSE <<Head(str)>>)
           \o NonWhiteSpace(Tail(str))

\* The trimmed chunks joined with single spaces.
RECURSIVE JoinTrimmed(_)
JoinTrimmed(chunks) ==
    IF chunks = <<>> THEN <<>>
    ELSE IF Len(chunks) = 1 THEN trim(chunks[1])
    ELSE trim(chunks[1]) \o <<" ">> \o JoinTrimmed(Tail(chunks))

\* C16: the trimmed chunks joined with single spaces hold all
\* non-whitespace characters of the text in their order; no word, sentence
\* punctuation or comma is dropped or duplicated.
C16_Coverage ==
    segmenter.returned
      => NonWhiteSpace(JoinTrimmed(segmenter.chunks))
           = NonWhiteSpace(segmenter.text)

\* C17: a text no longer than maxChunkSize yields exactly one chunk, the
\* trimmed text.
C17_ShortCircuit ==
    (segmenter.returned /\ Len(segmenter.text) <= segmenter.maxChunkSize)
      => segmenter.chunks = <<trim(segmenter.text)>>

\* C18: no chunk returned is empty or all whitespace, whatever the text,
\* the empty and the whitespace-only text included.
C18_NoBlankChunk ==
    segmenter.returned
      => \A i \in 1..Len(segmenter.chunks) : trim(segmenter.chunks[i]) # <<>>

\* The samples of the chunks, one chunk after the other.
RECURSIVE InOrder(_)
InOrder(audioChunks) ==
    IF audioChunks = <<>> THEN <<>>
    ELSE Head(audioChunks).audio \o InOrder(Tail(audioChunks))

\* The 16-bit samples a file holds for the given samples.
Encoded(samples) ==
    [i \in 1..Len(samples) |-> RoundScaled(Clamp(samples[i]))]

\* C19: stitching two or more chunks of equal sample rate returns with the
\* combined samples being the first chunk's samples followed by the second's
\* and so on, without reordering, gap or overlap, in the array and in the
\* file at outputPath; totalSamples is the sum of the chunk lengths and
\* totalDuration is totalSamples / sampleRate.
C19_StitchInOrder ==
    (stitcher.pc = "returned" /\ Len(stitcher.audioChunks) >= 2)
      => /\ stitcher.combinedAudio = InOrder(stitcher.audioChunks)
         /\ stitcher.outputFile # NoSuchFile
         /\ stitcher.outputFile # PartialFile
         /\ stitcher.outputFile[1].pcmData
              = Encoded(InOrder(stitcher.audioChunks))
         /\ stitcher.result.totalSamples
              = Len(InOrder(stitcher.audioChunks))
         /\ IsFraction(stitcher.result.totalDuration,
                       Len(InOrder(stitcher.audioChunks)),
                       stitcher.audioChunks[1].sampling_rate)

C19_Witness ==
    /\ stitcher.pc = "returned"
    /\ Len(stitcher.audioChunks) = 2
    /\ stitcher.audioChunks[1].audio = <<-6>>
    /\ stitcher.audioChunks[2].audio = <<2>>
    /\ stitcher.combinedAudio = <<-6, 2>>
    /\ stitcher.outputFile[1].pcmData = <<-32767, 16384>>
    /\ stitcher.result.totalSamples = 2
    /\ stitcher.result.totalDuration = <<2, 24000>>

\* The files and directories a call of stitchChunks has made.
NothingWritten ==
    /\ stitcher.dirs = {}
    /\ stitcher.outputFile = stitcher.before
    /\ stitcher.tempFile = NoSuchFile
    /\ stitcher.chunkFiles = <<>>
    /\ stitcher.saves = 0

RatesDiffer(audioChunks) ==
    \E i, j \in 1..Len(audioChunks) :
        audioChunks[i].sampling_rate # audioChunks[j].sampling_rate

\* C20: stitching chunks whose sample rates are not all equal throws the
\* sample rate mismatch error before anything is written: no file at
\* outputPath, in tempDir or in chunkDir, and no directory.
C20_RateMismatchWritesNothing ==
    (stitcher.pc # "called" /\ RatesDiffer(stitcher.audioChunks))
      => /\ stitcher.pc = "threw"
         /\ stitcher.error = "Sample rate mismatch"
         /\ NothingWritten

C20_Witness ==
    /\ stitcher.pc = "threw"
    /\ stitcher.error = "Sample rate mismatch"
    /\ Len(stitcher.audioChunks) = 2
    /\ stitcher.audioChunks[1].sampling_rate = 24000
    /\ stitcher.audioChunks[2].sampling_rate = 22050
    /\ stitcher.options.tempDir
    /\ stitcher.options.keepChunks
    /\ stitcher.options.chunkDir
    /\ NothingWritten

\* C21: stitching zero chunks throws the empty-input error; no file is
\* written and no directory is made.
C21_EmptyInput ==
    (stitcher.pc # "called" /\ Len(stitcher.audioChunks) = 0)
      => /\ stitcher.pc = "threw"
         /\ stitcher.error = "No audio chunks to stitch"
         /\ NothingWritten

C21_Witness ==
    /\ stitcher.pc = "threw"
    /\ stitcher.error = "No audio chunks to stitch"
    /\ stitcher.audioChunks = <<>>
    /\ stitcher.options.tempDir
    /\ stitcher.options.keepChunks
    /\ stitcher.options.chunkDir
    /\ stitcher.dirs = {}
    /\ stitcher.outputFile = stitcher.before
    /\ stitcher.tempFile = NoSuchFile
    /\ stitcher.chunkFiles = <<>>

\* C22: with keepChunks set and a chunkDir given, a call of n >= 1 chunks
\* that returns has saved every chunk i as chunk_<i in 3 digits, from 001>
\* in chunkDir, and chunkPaths lists these n paths in input order, for
\* n = 1 as for n >= 2.
C22_ChunksKept ==
    (/\ stitcher.pc = "returned"
     /\ stitcher.options.keepChunks
     /\ stitcher.options.chunkDir)
      => /\ "chunkPaths" \in DOMAIN stitcher.result
         /\ Len(stitcher.chunkFiles) = Len(stitcher.audioChunks)
         /\ \A i \in 1..Len(stitcher.chunkFiles) :
               /\ stitcher.chunkFiles[i].path = <<0, 0, i>>
               /\ stitcher.chunkFiles[i].file
                    = Saved(stitcher.audioChunks[i])
         /\ stitcher.result.chunkPaths
              = [i \in 1..Len(stitcher.audioChunks) |-> <<0, 0, i>>]

\* C23: with a tempDir, at every point of a stitch of two or more chunks,
\* a point where it was cut short included, the file at outputPath is the
\* one that was there before the call or the complete encoded output, never
\* a partial file.
C23_OutputNeverPartial ==
    (stitcher.options.tempDir /\ Len(stitcher.audioChunks) >= 2)
      => \/ stitcher.outputFile = stitcher.before
         \/ /\ stitcher.wavBuffer # NoSuchFile
            /\ stitcher.outputFile = stitcher.wavBuffer

C23_Witness ==
    /\ stitcher.options.tempDir
    /\ Len(stitcher.audioChunks) = 2
    /\ stitcher.pc = "threw"
    /\ stitcher.error = "writeFile"
    /\ stitcher.tempFile = PartialFile
    /\ stitcher.before = OldFile
    /\ stitcher.outputFile = OldFile

\* C24: a stitch of one chunk saves that chunk at outputPath, once, and
\* returns the chunk's sample count as totalSamples and that count divided
\* by the chunk's sample rate as totalDuration.
C24_SingleChunk ==
    (stitcher.pc = "returned" /\ Len(stitcher.audioChunks) = 1)
      => /\ stitcher.saves = 1
         /\ stitcher.outputFile = Saved(stitcher.audioChunks[1])
         /\ stitcher.chunkFiles = <<>>
         /\ stitcher.tempFile = NoSuchFile
         /\ stitcher.result.totalSamples = Len(stitcher.audioChunks[1].audio)
         /\ IsFraction(stitcher.result.totalDuration,
                       Len(stitcher.audioChunks[1].audio),
                       stitcher.audioChunks[1].sampling_rate)

C24_Witness ==
    /\ stitcher.pc = "returned"
    /\ Len(stitcher.audioChunks) = 1
    /\ stitcher.audioChunks[1].audio = <<2>>
    /\ stitcher.audioChunks[1].sampling_rate = 24000
    /\ stitcher.before = OldFile
    /\ stitcher.outputFile = Saved(stitcher.audioChunks[1])
    /\ stitcher.saves = 1
    /\ stitcher.result.totalSamples = 1
    /\ stitcher.result.totalDuration = <<1, 24000>>

\* v is x / SampleScale * 32767 rounded to the nearest integer, a half
\* rounded up.
IsRounded(v, x) ==
    /\ 2 * SampleScale * v - 2 * x * 32767 > -SampleScale
    /\ 2 * SampleScale * v - 2 * x * 32767 <= SampleScale

\* C25: every sample, those outside [-1, 1] included, is encoded as a
\* 16-bit value in -32767..32767 without wraparound: a sample above 1 as
\* 32767, one below -1 as -32767, one in range as round(sample * 32767).
C25_PcmEncoding ==
    stitcher.pc = "encoded"
      => \A i \in 1..Len(stitcher.audioData) :
            LET sample == stitcher.audioData[i]
                v == stitcher.wavBuffer[1].pcmData[i]
            IN /\ v \in -32767..32767
               /\ (sample # NaN /\ sample > SampleScale) => v = 32767
               /\ (sample # NaN /\ sample < -SampleScale) => v = -32767
               /\ (sample # NaN /\ sample >= -SampleScale
                                /\ sample <= SampleScale)
                     => IsRounded(v, sample)

C25_Witness ==
    /\ stitcher.pc = "encoded"
    /\ stitcher.audioData = <<6, -2>>
    /\ stitcher.wavBuffer[1].pcmData = <<32767, -16383>>

\* C26: N combined samples at rate R are written as 44 + 2N bytes with a
\* data length of 2N, a RIFF chunk size of 36 + 2N, byte rate 2R, block
\* align 2, one channel, 16 bits per sample and format tag 1, and
\* estimateOutputSize of the chunks is the byte length written.
C26_ContainerSizes ==
    (stitcher.pc = "returned" /\ Len(stitcher.audioChunks) >= 2)
      => LET N == Len(InOrder(stitcher.audioChunks))
             R == stitcher.audioChunks[1].sampling_rate
             written == stitcher.outputFile[1]
         IN /\ written.length = 44 + 2 * N
            /\ written.subchunk2Size = 2 * N
            /\ written.chunkSize = 36 + 2 * N
            /\ written.sampleRate = R
            /\ written.byteRate = 2 * R
            /\ written.blockAlign = 2
            /\ written.numChannels = 1
            /\ written.bitsPerSample = 16
            /\ written.audioFormat = 1
            /\ Len(written.pcmData) = N
            /\ estimateOutputSize(stitcher.audioChunks) = written.length

C26_Witness ==
    /\ stitcher.pc = "returned"
    /\ Len(stitcher.audioChunks) = 2
    /\ Len(stitcher.audioChunks[1].audio) = 1
    /\ Len(stitcher.audioChunks[2].audio) = 1
    /\ stitcher.audioChunks[1].sampling_rate = 24000
    /\ stitcher.outputFile[1].length = 48
    /\ stitcher.outputFile[1].chunkSize = 40
    /\ stitcher.outputFile[1].byteRate = 48000
    /\ estimateOutputSize(stitcher.audioChunks) = 48

\* C27: with an enabled cache, a generateAudio that returns after a cache
\* hit has not called the engine, its output is a copy of the cached payload
\* and fromCache is true; after a miss it has called the engine once, saved
\* the output, then called cache.set once with the same text, voice and
\* options, and fromCache is false.
C27_OrchestrationOrder ==
    /\ (audio.cacheEnabled /\ audio.cachedPath # Null)
         => audio.engine = "" /\ audio.generated = NoFile
    /\ (audio.outcome = "returned" /\ audio.cacheEnabled)
      => IF audio.cachedPath # Null
         THEN /\ audio.fromCache
              /\ audio.trace = <<"get", "copy">>
              /\ audio.engine = ""
              /\ audio.output # NoFile
              /\ audio.output = files[KeyOf(audio.req)]
              /\ audio.sets = <<>>
         ELSE /\ ~audio.fromCache
              /\ audio.trace = <<"get", "generate", "save", "set">>
              /\ audio.engine = "ok"
              /\ audio.output = audio.generated
              /\ audio.sets = <<audio.req>>

C27_Witness ==
    /\ audio.outcome = "returned"
    /\ audio.cacheEnabled
    /\ audio.cachedPath # Null
    /\ audio.fromCache
    /\ audio.trace = <<"get", "copy">>
    /\ audio.output = 2
    /\ ret.op = "get"
    /\ stats.hits = 1
    /\ stats.misses = 1

\* C28: when the engine fails during generateAudio the error reaches the
\* caller, the file at outputPath is not written and no cache entry is added
\* for the input.
C28_GenerationFailure ==
    audio.engine = "failed"
      => /\ audio.outcome = "threw"
         /\ audio.error = "generate"
         /\ audio.output = audio.before
         /\ audio.sets = <<>>
         /\ audio.cacheEnabled => ~HasKey(index.entries, KeyOf(audio.req))

C28_Witness ==
    /\ audio.engine = "failed"
    /\ audio.outcome = "threw"
    /\ audio.cacheEnabled
    /\ audio.before = 1
    /\ audio.output = 1
    /\ Len(index.entries) = 1
    /\ ~HasKey(index.entries, KeyOf(audio.req))

\* C29: when the stream yields chunks c1..cn, n >= 1, the file that
\* streamAudio leaves at the output path holds the samples of all n chunks
\* in the order they were yielded, not those of the last chunk only.
C29_StreamKeepsAllChunks ==
    (audio.pc = "returned" /\ Len(audio.yielded) >= 1)
      => SamplesOf(audio.output) = InOrder(audio.yielded)

\* C30: get and set calls in flight together leave an index that a
\* sequential order of the calls would produce; in particular each entry's
\* size is added to and subtracted from totalSize exactly once, and
\* totalSize is never negative.
C30_SerializedIndex == index.totalSize >= 0

\* index.totalSize as the call that is this step found it: the value
\* initialize loaded, the value set added its payload to.
TotalSizeBefore ==
    CASE ret'.op = "initialize" -> loadIndex(index, indexFile).totalSize
      [] ret'.op = "set" -> index.totalSize + ret'.size
      [] OTHER -> index.totalSize

\* C31: every entry a call deletes (evicted by set, expired or without its
\* file in get, swept by initialize) is out of the index when the call
\* returns and its size is off totalSize, also when the removal of its
\* directory failed.
C31_DeleteDespiteFailedRemoval ==
    [][(/\ ops' = ops + 1
        /\ enabled /\ enabled'
        /\ ret'.op \in {"get", "set", "initialize"}
        /\ ~ret'.threw)
       => /\ \A i \in 1..Len(ret'.evicted) :
                ~HasKey(index'.entries, ret'.evicted[i].key)
          /\ index'.totalSize = TotalSizeBefore - SumSize(ret'.evicted)]_vars

\* A get deleted the entry of its key and the payload file is still there:
\* the removal failed.
C31_Witness ==
    /\ ret.op = "get"
    /\ Len(ret.evicted) = 1
    /\ faults = 1
    /\ files[ret.key] # NoFile
    /\ ~HasKey(index.entries, ret.key)
    /\ index.totalSize = 0

\* index.json holds an index: a value with an entries field.
ValidSnapshot(file) ==
    /\ file # NoSnapshot
    /\ file # Unparseable
    /\ "entries" \in DOMAIN file[1]

RECURSIVE NoCommas(_)
NoCommas(str) ==
    IF str = <<>> THEN <<>>
    ELSE (IF Head(str) = "," THEN <<>> ELSE <<Head(str)>>)
           \o NoCommas(Tail(str))

\* C33: the sentences appear in the chunks in their original order (the
\* chunks read one after the other are the sentences read one after the
\* other, whitespace and the commas a long sentence is split at aside), and
\* whenever a chunk is closed and the next sentence starts a new one, that
\* sentence appended to the closed chunk with one space would have been
\* longer than maxChunkSize.
C33_GreedyPacking ==
    (segmenter.returned /\ Len(segmenter.text) > segmenter.maxChunkSize)
      => /\ NoCommas(NonWhiteSpace(JoinTrimmed(segmenter.chunks)))
              = NoCommas(NonWhiteSpace(JoinTrimmed(segmenter.sentences)))
         /\ \A k \in 1..Len(segmenter.closed) :
               /\ Len(segmenter.closed[k].chunk) + 1
                    + Len(segmenter.closed[k].sentence)
                    > segmenter.maxChunkSize
               /\ \E j \in 1..(Len(segmenter.chunks) - 1) :
                     /\ segmenter.chunks[j] = segmenter.closed[k].chunk
                     /\ SubSeq(segmenter.chunks[j + 1], 1,
                               Len(segmenter.closed[k].sentence))
                          = segmenter.closed[k].sentence

\* The documented scenario: "Hello world." is closed because the 50
\* characters of the second sentence do not fit behind it.
C33_Witness ==
    /\ segmenter.returned
    /\ segmenter.text = ScenarioText
    /\ Len(segmenter.sentences) = 2
    /\ Len(segmenter.closed) = 1
    /\ segmenter.closed[1].chunk = ScenarioChunk1
    /\ segmenter.chunks[1] = ScenarioChunk1

\* The call of withRetry has returned or thrown.
RetrySettled == retry.pc \in {"returned", "threw"}

\* Every error thrown so far satisfies retryCondition.
AllRetryable ==
    \A i \in 1..Len(retry.thrown) :
        retryCondition(retry.config, retry.thrown[i].error)

C34_Bounded ==
    /\ retry.invocations <= retry.config.maxAttempts
    /\ retry.invocations
         = Len(retry.thrown)
             + (IF retry.pc \in {"operation", "returned"} THEN 1 ELSE 0)
    /\ \A i \in 1..Len(retry.thrown) : retry.thrown[i].attempt = i
    /\ retry.pc = "returned"
         => /\ retry.result = <<retry.invocations>>
            /\ AllRetryable
    /\ (retry.pc = "threw" /\ AllRetryable /\ retry.thrown # <<>>)
         => /\ Len(retry.thrown) = retry.config.maxAttempts
            /\ retry.lastError
                 = retry.thrown[retry.config.maxAttempts].error

\* C34: withRetry invokes the operation at most maxAttempts times; it
\* returns the value of the first attempt that succeeds, every invocation
\* before it having failed and none following it; when every attempt fails
\* with a retryable error it throws the error of attempt maxAttempts; and
\* with every attempt settling the call returns or throws.
C34_RetryTerminates == []C34_Bounded /\ <>RetrySettled

\* Two retryable failures, then the third attempt succeeds.
C34_Witness ==
    /\ retry.pc = "returned"
    /\ retry.config.maxAttempts = 3
    /\ retry.invocations = 3
    /\ Len(retry.thrown) = 2
    /\ retry.result = <<3>>

\* The retry condition of the call says no to the error: under the default
\* options an error that is no NetworkError, under withNetworkRetry one
\* that is no NetworkError and whose message names no network failure.
ConditionFalse(config, error) ==
    \/ /\ config.retryCondition = "default"
       /\ error.name # "NetworkError"
    \/ /\ config.retryCondition = "network"
       /\ error.name # "NetworkError"
       /\ error.message # "network"

\* C35: an error for which retryCondition is false is rethrown at once: it
\* is the last error thrown by the operation, the operation is not invoked
\* again and no delay follows it, whatever attempts are left.
C35_FatalErrorRethrown ==
    \A i \in 1..Len(retry.thrown) :
        ConditionFalse(retry.config, retry.thrown[i].error)
          => /\ i = Len(retry.thrown)
             /\ retry.pc = "threw"
             /\ retry.lastError = retry.thrown[i].error
             /\ retry.invocations = i
             /\ Len(retry.waits) = i - 1

\* A plain Error at the first of three attempts under the default
\* retryCondition.
C35_Witness ==
    /\ retry.pc = "threw"
    /\ retry.config.maxAttempts = 3
    /\ retry.config.retryCondition = "default"
    /\ Len(retry.thrown) = 1
    /\ retry.thrown[1].error.name = "Error"
    /\ retry.waits = <<>>

\* min(baseDelay * 2^(k-1), maxDelay)
CappedBackoff(config, k) ==
    LET doubled == config.baseDelay * (2 ^ (k - 1))
    IN IF doubled <= config.maxDelay THEN doubled ELSE config.maxDelay

\* C36: the k-th wait follows failed attempt k < maxAttempts and lasts
\* min(baseDelay * 2^(k-1), maxDelay) when exponential is set and baseDelay
\* otherwise; so no wait exceeds maxDelay in exponential mode, the waits
\* are non-decreasing in k, and no wait follows attempt maxAttempts.
C36_Backoff ==
    /\ \A k \in 1..Len(retry.waits) :
          /\ retry.waits[k].after = k
          /\ k < retry.config.maxAttempts
          /\ retry.waits[k].delay
               = IF retry.config.exponential
                 THEN CappedBackoff(retry.config, k)
                 ELSE retry.config.baseDelay
          /\ retry.config.exponential
               => retry.waits[k].delay <= retry.config.maxDelay
          /\ k > 1 => retry.waits[k - 1].delay <= retry.waits[k].delay
    /\ Len(retry.waits) <= Len(retry.thrown)
    /\ (RetrySettled /\ retry.thrown # <<>>)
          => Len(retry.waits) = retry.invocations - 1

\* Three failed attempts with base delay 1 and cap 1: the second wait is
\* capped, and none follows the third attempt.
C36_Witness ==
    /\ retry.pc = "threw"
    /\ retry.config.exponential
    /\ retry.config.baseDelay = 1
    /\ retry.config.maxDelay = 1
    /\ Len(retry.thrown) = 3
    /\ retry.waits = <<[after |-> 1, delay |-> 1], [after |-> 2, delay |-> 1]>>

\* C37: every get on an enabled store adds one to exactly one of hits and
\* misses, to hits exactly when it returns a path and to misses exactly
\* when it returns null, and set changes neither; so between two resets of
\* the counters hits + misses grows by the number of such gets.
C37_OneCountPerGet ==
    [][/\ (CallOf("get") /\ enabled)
            => /\ ret'.result # Null
                    => /\ stats'.hits = stats.hits + 1
                       /\ stats'.misses = stats.misses
               /\ ret'.result = Null
                    => /\ stats'.misses = stats.misses + 1
                       /\ stats'.hits = stats.hits
       /\ CallOf("set")
            => /\ stats'.hits = stats.hits
               /\ stats'.misses = stats.misses
       /\ (ops' = ops /\ enabled)
            => /\ stats'.hits = stats.hits
               /\ stats'.misses = stats.misses]_vars

\* A miss, a set and a hit: one count for each get.
C37_Witness ==
    /\ enabled
    /\ ret.op = "get"
    /\ ret.result # Null
    /\ ops = 4
    /\ stats.hits = 1
    /\ stats.misses = 1
    /\ HasKey(index.entries, ret.key)

\* C38: after every completed initialize, get, set and clear of an enabled
\* store, getStats().totalEntries is the number of entries in the index and
\* getStats().totalSize is index.totalSize, also directly after an
\* initialize that loaded a snapshot and swept expired entries.
C38_StatsFollowIndex ==
    (enabled /\ ret.op \in {"initialize", "get", "set", "clear"})
        => /\ stats.totalEntries = Len(index.entries)
           /\ stats.totalSize = index.totalSize

\* C39: after a set in which no filesystem call fails, of a payload of at
\* most maxSize bytes and with maxEntries >= 1, the entry just set is in
\* the index, whatever gets and sets came before, earlier sets of the same
\* key included.
C39_NewEntrySurvives ==
    [][(/\ CallOf("set")
        /\ enabled
        /\ faults' = faults
        /\ ret'.size <= maxSize
        /\ maxEntries >= 1)
       => /\ HasKey(index'.entries, ret'.key)
          /\ Lookup(index'.entries, ret'.key).size = ret'.size]_vars

\* C40: whenever streamAudio returns a result, a file was written at
\* result.audioPath during the call, a stream that yields no chunk
\* included (generateAudio, whose every return follows a copy or a save,
\* is the other half of the claim).
C40_ResultHasFile ==
    audio.pc = "returned"
      => /\ audio.output # audio.before
         /\ audio.output # NoSuchFile
         /\ audio.output # PartialFile

================================================================
